---- MODULE Spec2Model ----
(***************************************************************************)
(* Model of termina's concurrent event reader (src/event/reader.rs), its   *)
(* platform event source seen from the reader (src/event/source/unix.rs)   *)
(* and the asynchronous bridge (src/event/stream.rs).                      *)
(*                                                                         *)
(* Events are numbered in the order in which try_read hands them to the    *)
(* reader, so the id of an event is its arrival position.  A filter        *)
(* (Fn(&Event) -> bool) is modelled by the set of event kinds it accepts.  *)
(***************************************************************************)
EXTENDS Integers, Sequences, FiniteSets, TLC

\* Number of raw input units (tty input and SIGWINCH signals) the environment
\* delivers in one behaviour.
MaxEvents == 3

\* The same, where only read is called: with no poll to fill the FIFO, three
\* events buffered behind a fourth are needed to see a read reorder them.
MaxOrderEvents == 4

\* The same, where one thread polls with a timeout while another reads: two
\* events that do not match can arrive during one poll.
MaxTimedEvents == 2

NoThread == "nobody"
Consumers == {"t1", "t2"}
StreamTask == "stream"
Helper == "helper"
Threads == Consumers \cup {StreamTask, Helper}

TtyKinds == {"key", "mouse"}
Kinds == TtyKinds \cup {"resize"}
Filters == {{"key"}, {"mouse"}, {"key", "resize"}}
\* The wakers of the tasks that poll the stream: cx.waker()
NoWaker == "no_waker"
TaskWakers == {"w1", "w2"}

StreamFilter == {"key"}
NoFilter == {}
Timeouts == {"none", "zero", "finite"}

VARIABLES
    \* --- byte source: UnixEventSource and the file descriptors it polls
    tty,            \* decodable input waiting on the read fd, one kind per event
    parserEvents,   \* Parser::events, decoded but not yet popped
    sigwinch,       \* the SIGWINCH pipe holds data
    wakePipe,       \* the number of bytes in the wake pipe
    nextId,         \* id of the next event try_read returns
    \* --- Shared, behind Arc<Mutex<Shared>>
    events,         \* Shared::events
    skipped_events, \* Shared::skipped_events
    lock,           \* owner of the mutex, or NoThread
    \* --- per thread: the call in progress
    pc,
    op,             \* "poll", "read", or "readp": a read that directly follows
                    \* the thread's own poll that returned Ok(true), same filter
    filter, timeout,
    rskipped,       \* Shared::read's local skipped_events
    \* --- EventStream and its helper thread
    executed,       \* stream_wake_task_executed
    shutdown,       \* stream_wake_task_should_shutdown
    channel,        \* tasks in the sync_channel, each by its stream_waker
    senderAlive,    \* task_sender not dropped yet
    cx,             \* the waker of the Context of the last poll_next call
    taskWaker,      \* stream_waker of the task the helper thread holds
    \* --- history
    last,           \* the return of a poll or read call, until the next call,
                    \* with the wakes its last try_read took from the wake pipe
    delivered,      \* per event id, the number of read calls that returned it
    returned,       \* the returns of read in order (kept where only read is called)
    \* --- the byte level: Parser (src/parse.rs) and the values on the wire
    buffer,         \* Parser::buffer, bytes fed but not yet resolved
    input,          \* bytes the terminal has still to deliver
    panicked,       \* a call into the decoder or into OneBased panicked
    fed,            \* the last call of Parser::parse: its arguments and what it found
    sent,           \* the command whose encoding was written to the terminal
    oneBased,       \* the last OneBased value built, with the argument it was built from
    written,        \* the bytes the application wrote to the terminal for `sent`
    popped          \* the events try_read has returned from the decoder's queue

codecVars == <<buffer, input, panicked, fed, sent, oneBased, written, popped>>
srcVars == <<tty, parserEvents, sigwinch, wakePipe, nextId, codecVars>>
sharedVars == <<events, skipped_events, lock>>
callVars == <<pc, op, filter, timeout, rskipped>>
streamVars == <<executed, shutdown, channel, senderAlive, cx, taskWaker>>
histVars == <<last, delivered, returned>>
vars == <<srcVars, sharedVars, callVars, streamVars, histVars>>

NoEvent == [id |-> 0, kind |-> "none"]
NoRet == [by |-> NoThread, op |-> "none", filter |-> NoFilter, tm |-> "none",
          val |-> "none", why |-> "none", ev |-> NoEvent, wakes |-> 0]

NoFeed == [bytes |-> <<>>, more |-> FALSE, before |-> <<>>, had |-> 0]
NoCmd == [cmd |-> "none"]
NoOneBased == [op |-> "none", arg |-> 0, val |-> <<>>, zero |-> <<>>]

\* Nothing has been fed to the decoder and no value has been built.
CodecIdle ==
    /\ buffer = <<>> /\ input = <<>> /\ panicked = FALSE
    /\ fed = NoFeed /\ sent = NoCmd /\ oneBased = NoOneBased
    /\ written = <<>> /\ popped = <<>>

\* The reader, its source and the stream right after construction.
ReaderInit ==
    /\ tty = <<>> /\ parserEvents = <<>>
    /\ sigwinch = FALSE /\ wakePipe = 0
    /\ nextId = 1
    /\ events = <<>> /\ skipped_events = <<>> /\ lock = NoThread
    /\ pc = [t \in Threads |-> IF t = Helper THEN "h_recv" ELSE "idle"]
    /\ op = [t \in Threads |-> "none"]
    /\ filter = [t \in Threads |-> NoFilter]
    /\ timeout = [t \in Threads |-> "none"]
    /\ rskipped = [t \in Threads |-> <<>>]
    /\ executed = FALSE /\ shutdown = FALSE
    /\ channel = <<>> /\ senderAlive = TRUE
    /\ cx = NoWaker /\ taskWaker = NoWaker
    /\ last = NoRet
    /\ delivered = <<>>
    /\ returned = <<>>

Init == CodecIdle /\ ReaderInit

(***************************************************************************)
(* Pure parts of Shared::poll and Shared::read                             *)
(***************************************************************************)

\* (filter)(&event)
Matches(f, e) == e.kind \in f

\* self.events.iter().any(filter)
AnyMatch(evs, f) == \E i \in DOMAIN evs : Matches(f, evs[i])

\* self.events.extend(skipped.drain(..))
Extend(evs, sk) == evs \o sk

\* self.events.push_front(event)
PushFront(evs, e) == <<e>> \o evs

\* A faulty poll that hands every failure of try_read to its caller, the
\* wake included.  With it C7 fails.
PollPropagatesInterrupted(kind) == "err"

\* A faulty poll that answers every failure of try_read with Ok(false).  With
\* it C11 fails.
PollSwallowsError(kind) == "false"

\* What Shared::poll returns when try_read fails: "false" is Ok(false).
PollOnSourceError(kind) == IF kind = "interrupted" THEN "false" ELSE "err"

\* PollTimeout::elapsed as the caller can observe it: a zero timeout has always
\* elapsed, no timeout never, and a finite one may or may not have (its
\* leftover is then zero).
ElapsedChoices(tm) ==
    IF tm = "zero" THEN {TRUE} ELSE IF tm = "none" THEN {FALSE} ELSE BOOLEAN

\* One iteration of the loop of Shared::poll on the outcome o of try_read, with
\* el the value of timeout.elapsed() after it.
PollIteration(o, el, evs, sk, f, id) ==
    LET e == [id |-> id, kind |-> o.kind]
        none == [done |-> TRUE, val |-> "false", why |-> "timeout",
                 events |-> Extend(evs, sk), skipped |-> <<>>]
    IN  CASE o.res = "event" /\ Matches(f, e) ->
                [done |-> TRUE, val |-> "true", why |-> "drawn",
                 events |-> PushFront(Extend(evs, sk), e), skipped |-> <<>>]
          [] o.res = "event" /\ ~Matches(f, e) ->
                IF el
                THEN [none EXCEPT !.events = Extend(evs, Append(sk, e))]
                ELSE [done |-> FALSE, val |-> "none", why |-> "none",
                      events |-> evs, skipped |-> Append(sk, e)]
          [] o.res = "none" ->
                IF el THEN none
                ELSE [done |-> FALSE, val |-> "none", why |-> "none",
                      events |-> evs, skipped |-> sk]
          [] OTHER ->
                [done |-> TRUE, val |-> PollOnSourceError(o.res), why |-> o.res,
                 events |-> evs, skipped |-> sk]

\* Index of the first event of evs the filter accepts, 0 when there is none.
FirstMatch(evs, f) ==
    IF AnyMatch(evs, f)
    THEN CHOOSE i \in DOMAIN evs :
            Matches(f, evs[i]) /\ \A j \in 1..(i - 1) : ~Matches(f, evs[j])
    ELSE 0

\* A faulty read that returns the first matching event and leaves it in the
\* FIFO.  With it C4 fails.
ReadScanKeepsMatch(evs, rsk, f) ==
    LET i == FirstMatch(evs, f)
    IN  IF i = 0
        THEN [found |-> FALSE, ev |-> NoEvent,
              events |-> <<>>, rskipped |-> rsk \o evs]
        ELSE [found |-> TRUE, ev |-> evs[i],
              events |-> Extend(SubSeq(evs, i, Len(evs)),
                                rsk \o SubSeq(evs, 1, i - 1)),
              rskipped |-> <<>>]

\* The pop_front loop of Shared::read over the FIFO evs, with rsk the events the
\* call has skipped so far.
ReadScanResult(evs, rsk, f) ==
    LET i == FirstMatch(evs, f)
    IN  IF i = 0
        THEN [found |-> FALSE, ev |-> NoEvent,
              events |-> <<>>, rskipped |-> rsk \o evs]
        ELSE [found |-> TRUE, ev |-> evs[i],
              events |-> Extend(SubSeq(evs, i + 1, Len(evs)),
                                rsk \o SubSeq(evs, 1, i - 1)),
              rskipped |-> <<>>]

(***************************************************************************)
(* The byte source                                                         *)
(***************************************************************************)

\* Raw units delivered so far: those already drawn and those still pending.
Delivered ==
    (nextId - 1) + Len(tty) + Len(parserEvents) + (IF sigwinch THEN 1 ELSE 0)

\* The environment: the terminal delivers input, the window is resized, some
\* thread invokes a clone of the waker.
ArriveUpTo(n) ==
    /\ Delivered < n
    /\ \E k \in TtyKinds : tty' = Append(tty, k)
    /\ UNCHANGED <<parserEvents, sigwinch, wakePipe, nextId, codecVars>>
    /\ UNCHANGED <<sharedVars, callVars, streamVars, histVars>>

SigWinchUpTo(n) ==
    /\ Delivered < n /\ ~sigwinch
    /\ sigwinch' = TRUE
    /\ UNCHANGED <<tty, parserEvents, wakePipe, nextId, codecVars>>
    /\ UNCHANGED <<sharedVars, callVars, streamVars, histVars>>

Arrive == ArriveUpTo(MaxEvents)

SigWinch == SigWinchUpTo(MaxEvents)

\* UnixWaker::wake: one byte written to the wake pipe, which holds fewer
\* than n.
WakerWakeUpTo(n) ==
    /\ wakePipe < n
    /\ wakePipe' = wakePipe + 1
    /\ UNCHANGED <<tty, parserEvents, sigwinch, nextId, codecVars>>
    /\ UNCHANGED <<sharedVars, callVars, streamVars, histVars>>

\* The waker is invoked when no wake is pending.
WakerWake == WakerWakeUpTo(1)

\* A faulty try_read that takes one byte from the wake pipe.  With it C36
\* fails.
ReadOneWake(n) == n - 1

\* while read_complete(&self.wake_pipe, &mut [0; 1024])? != 0 {}: what is left
\* of the n bytes in the wake pipe.
DrainWakePipe(n) == 0

\* The outcomes of UnixEventSource::try_read(tm) that are not failures of the
\* operating system, in the current state of the source, each with the state
\* of the source it leaves.  No outcome: the call stays blocked in poll(2).
\* A read of the tty takes any nonempty prefix of the pending input.
TryReadReady(tm) ==
    LET same == [tty |-> tty, parser |-> parserEvents,
                 sigwinch |-> sigwinch, wake |-> wakePipe]
        out(res, kind, src) ==
            [res |-> res, kind |-> kind, tty |-> src.tty, parser |-> src.parser,
             sigwinch |-> src.sigwinch, wake |-> src.wake]
    IN  IF parserEvents # <<>>
        THEN {out("event", Head(parserEvents),
                  [same EXCEPT !.parser = Tail(parserEvents)])}
        ELSE IF tty # <<>>
        THEN {out("event", Head(tty),
                  [same EXCEPT !.parser = SubSeq(tty, 2, n),
                               !.tty = SubSeq(tty, n + 1, Len(tty))])
              : n \in 1..Len(tty)}
        ELSE IF sigwinch
        THEN {out("event", "resize", [same EXCEPT !.sigwinch = FALSE])}
        ELSE IF wakePipe > 0
        THEN {out("interrupted", "none",
                  [same EXCEPT !.wake = DrainWakePipe(wakePipe)])}
        ELSE IF tm # "none"
        THEN {out("none", "none", same)}
        ELSE {}

\* poll(2) or read(2) fails with an error other than EINTR and WouldBlock: try_read
\* returns it.  It can happen whenever try_read gets past parser.pop().
TryReadFailure ==
    IF parserEvents # <<>>
    THEN {}
    ELSE {[res |-> "error", kind |-> "none", tty |-> tty, parser |-> parserEvents,
           sigwinch |-> sigwinch, wake |-> wakePipe]}

TryReadOutcomes(tm) == TryReadReady(tm) \cup TryReadFailure

\* try_read has something to return without waiting.
SourceReady == parserEvents # <<>> \/ tty # <<>> \/ sigwinch \/ wakePipe > 0

(***************************************************************************)
(* EventReader::poll and EventReader::read, one call per thread            *)
(***************************************************************************)

\* Where a thread continues when its poll call returns val.
AfterPoll(t, val) ==
    CASE t = StreamTask ->
            (IF val = "true" THEN "pn_true"
             ELSE IF val = "false" THEN "pn_false" ELSE "pn_err")
      [] t = Helper ->
            (IF val = "true" THEN "h_true"
             ELSE IF val = "false" THEN "h_other" ELSE "h_err")
      [] OTHER -> (IF val = "true" THEN "polled" ELSE "idle")

\* The call of thread t returns, its last try_read having taken `wakes` bytes
\* from the wake pipe: its locals are gone.  A consumer whose poll
\* returned Ok(true) keeps the filter, for the read that may follow.
ReturnWith(t, next, val, why, ev, wakes) ==
    /\ pc' = [pc EXCEPT ![t] = next]
    /\ last' = [by |-> t, op |-> IF op[t] = "poll" THEN "poll" ELSE "read",
                filter |-> filter[t], tm |-> timeout[t],
                val |-> val, why |-> why, ev |-> ev,
                wakes |-> wakes]
    /\ op' = [op EXCEPT ![t] = "none"]
    /\ filter' = [filter EXCEPT ![t] = IF next \in {"polled", "pn_true"}
                                       THEN filter[t] ELSE NoFilter]
    /\ timeout' = [timeout EXCEPT ![t] = "none"]
    /\ rskipped' = [rskipped EXCEPT ![t] = <<>>]

\* The same for a return that took nothing from the wake pipe.
Return(t, next, val, why, ev) == ReturnWith(t, next, val, why, ev, 0)

CallPoll(t) ==
    /\ pc[t] \in {"idle", "polled"}
    /\ \E f \in Filters, tm \in Timeouts :
          /\ filter' = [filter EXCEPT ![t] = f]
          /\ timeout' = [timeout EXCEPT ![t] = tm]
    /\ op' = [op EXCEPT ![t] = "poll"]
    /\ pc' = [pc EXCEPT ![t] = "poll_lock"]
    /\ last' = NoRet
    /\ UNCHANGED <<rskipped, srcVars, sharedVars, streamVars, delivered, returned>>

CallRead(t) ==
    /\ pc[t] \in {"idle", "polled"}
    /\ \E f \in Filters :
          /\ filter' = [filter EXCEPT ![t] = f]
          /\ op' = [op EXCEPT ![t] =
                      IF pc[t] = "polled" /\ filter[t] = f THEN "readp" ELSE "read"]
    /\ pc' = [pc EXCEPT ![t] = "read_lock"]
    /\ last' = NoRet
    /\ UNCHANGED <<timeout, rskipped, srcVars, sharedVars, streamVars>>
    /\ UNCHANGED <<delivered, returned>>

\* EventReader::waker begins: self.shared.lock()
CallWaker(t) ==
    /\ pc[t] = "idle"
    /\ op' = [op EXCEPT ![t] = "waker"]
    /\ pc' = [pc EXCEPT ![t] = "waker_lock"]
    /\ UNCHANGED <<filter, timeout, rskipped>>
    /\ UNCHANGED <<srcVars, sharedVars, streamVars, histVars>>

\* EventReader::waker has the lock: reader.source.waker() clones the write end
\* of the wake pipe, the guard is dropped and the call returns.
WakerLock(t) ==
    /\ pc[t] = "waker_lock" /\ lock = NoThread
    /\ op' = [op EXCEPT ![t] = "none"]
    /\ pc' = [pc EXCEPT ![t] = "idle"]
    /\ UNCHANGED <<filter, timeout, rskipped>>
    /\ UNCHANGED <<srcVars, sharedVars, streamVars, histVars>>

\* A faulty EventReader::poll that enters Shared::poll without the lock being
\* free.  With it C22 fails.
PollLockBarging(t) ==
    /\ pc[t] = "poll_lock"
    /\ IF AnyMatch(events, filter[t])
       THEN /\ Return(t, AfterPoll(t, "true"), "true", "buffered", NoEvent)
            /\ UNCHANGED lock
       ELSE /\ lock' = t
            /\ pc' = [pc EXCEPT ![t] = "poll_src"]
            /\ UNCHANGED <<op, filter, timeout, rskipped, last>>
    /\ UNCHANGED <<srcVars, events, skipped_events, streamVars, delivered, returned>>

\* A faulty EventReader::poll that takes the lock with lock() whatever its
\* timeout.  With it C14 fails.
PollLockBlocking(t) ==
    /\ pc[t] = "poll_lock"
    /\ lock = NoThread
    /\ IF AnyMatch(events, filter[t])
       THEN /\ Return(t, AfterPoll(t, "true"), "true", "buffered", NoEvent)
            /\ UNCHANGED lock
       ELSE /\ lock' = t
            /\ pc' = [pc EXCEPT ![t] = "poll_src"]
            /\ UNCHANGED <<op, filter, timeout, rskipped, last>>
    /\ UNCHANGED <<srcVars, events, skipped_events, streamVars, delivered, returned>>

\* EventReader::poll takes the lock (try_lock_for with a timeout, lock without)
\* and passes on what is left of the timeout; Shared::poll then looks at the
\* FIFO.
PollLock(t) ==
    /\ pc[t] = "poll_lock"
    /\ \/ /\ lock = NoThread
          /\ IF AnyMatch(events, filter[t])
             THEN /\ Return(t, AfterPoll(t, "true"), "true", "buffered", NoEvent)
                  /\ UNCHANGED lock
             ELSE /\ lock' = t
                  /\ pc' = [pc EXCEPT ![t] = "poll_src"]
                  /\ UNCHANGED <<op, filter, timeout, rskipped, last>>
       \/ /\ lock # NoThread /\ timeout[t] # "none"
          /\ Return(t, AfterPoll(t, "false"), "false", "lock_timeout", NoEvent)
          /\ UNCHANGED lock
    /\ UNCHANGED <<srcVars, events, skipped_events, streamVars, delivered, returned>>

\* One iteration of the loop of Shared::poll, by the owner of the lock: try_read,
\* then the match on its result.  A poll call returns to its caller; inside
\* Shared::read the result goes through `let _ = self.poll(None, ..)?`.
PollSrcWith(t, outcomes) ==
    /\ pc[t] = "poll_src" /\ lock = t
    /\ \E o \in outcomes, el \in ElapsedChoices(timeout[t]) :
          LET r == PollIteration(o, el, events, skipped_events, filter[t], nextId)
          IN  /\ tty' = o.tty /\ parserEvents' = o.parser
              /\ sigwinch' = o.sigwinch /\ wakePipe' = o.wake
              /\ nextId' = IF o.res = "event" THEN nextId + 1 ELSE nextId
              /\ delivered' = IF o.res = "event" THEN Append(delivered, 0)
                                                  ELSE delivered
              /\ events' = r.events /\ skipped_events' = r.skipped
              /\ IF ~r.done
                 THEN UNCHANGED <<lock, callVars, last>>
                 ELSE IF op[t] = "poll"
                 THEN /\ lock' = NoThread
                      /\ ReturnWith(t, AfterPoll(t, r.val), r.val, r.why, NoEvent,
                                    wakePipe - o.wake)
                 ELSE IF r.val = "err"
                 THEN /\ lock' = NoThread
                      /\ ReturnWith(t, "idle", "err", r.why, NoEvent,
                                    wakePipe - o.wake)
                 ELSE /\ pc' = [pc EXCEPT ![t] = "read_scan"]
                      /\ UNCHANGED <<lock, op, filter, timeout, rskipped, last>>
    /\ UNCHANGED <<streamVars, returned, codecVars>>

PollSrc(t) == PollSrcWith(t, TryReadOutcomes(timeout[t]))

\* EventReader::read takes the lock.
ReadLock(t) ==
    /\ pc[t] = "read_lock" /\ lock = NoThread
    /\ lock' = t
    /\ pc' = [pc EXCEPT ![t] = "read_scan"]
    /\ UNCHANGED <<op, filter, timeout, rskipped>>
    /\ UNCHANGED <<srcVars, events, skipped_events, streamVars, histVars>>

\* The pop_front loop of Shared::read: return the first match, or move the whole
\* FIFO to the local skipped list and enter Shared::poll(None, filter), whose
\* first test finds the emptied FIFO.  log: keep the order of the returns.
ReadScanStep(t, log) ==
    /\ pc[t] = "read_scan" /\ lock = t
    /\ LET r == ReadScanResult(events, rskipped[t], filter[t])
       IN  /\ events' = r.events
           /\ IF r.found
              THEN /\ lock' = NoThread
                   /\ Return(t, "idle", "event", "read", r.ev)
                   /\ delivered' = [delivered EXCEPT ![r.ev.id] = @ + 1]
                   /\ returned' = IF log
                                  THEN Append(returned,
                                         [id |-> r.ev.id, filter |-> filter[t]])
                                  ELSE returned
              ELSE /\ pc' = [pc EXCEPT ![t] = "poll_src"]
                   /\ rskipped' = [rskipped EXCEPT ![t] = r.rskipped]
                   /\ timeout' = [timeout EXCEPT ![t] = "none"]
                   /\ UNCHANGED <<lock, op, filter, histVars>>
    /\ UNCHANGED <<skipped_events, srcVars, streamVars>>

ReadScan(t) == ReadScanStep(t, FALSE)

ReadScanLogged(t) == ReadScanStep(t, TRUE)

(***************************************************************************)
(* EventStream: poll_next, Drop, and the helper thread                     *)
(***************************************************************************)

\* The capacity of mpsc::sync_channel::<Task>(1).
ChannelCap == 1

\* A faulty poll_next that ends the stream when the reader fails.  With it C13
\* fails.
PollNextEndsOnError(o, val) ==
    CASE o = "read" /\ val = "event" -> "ready_some_ok"
      [] o \in {"read", "poll"} /\ val = "err" -> "ready_none"
      [] o = "poll" /\ val = "false" -> "pending"
      [] OTHER -> "none"

\* The match of poll_next: what it returns for the return val of the call o
\* ("poll", "read") it made on the reader; "none": it goes on to the read.
PollNextItem(o, val) ==
    CASE o = "read" /\ val = "event" -> "ready_some_ok"
      [] o \in {"read", "poll"} /\ val = "err" -> "ready_some_err"
      [] o = "poll" /\ val = "false" -> "pending"
      [] OTHER -> "none"

\* poll_next(cx) begins, called by the task whose waker is w:
\* self.reader.poll(Some(Duration::from_secs(0)), &self.filter)
PollNextWith(w) ==
    /\ pc[StreamTask] = "idle"
    /\ cx' = w
    /\ op' = [op EXCEPT ![StreamTask] = "poll"]
    /\ filter' = [filter EXCEPT ![StreamTask] = StreamFilter]
    /\ timeout' = [timeout EXCEPT ![StreamTask] = "zero"]
    /\ pc' = [pc EXCEPT ![StreamTask] = "poll_lock"]
    /\ last' = NoRet
    /\ UNCHANGED <<executed, shutdown, channel, senderAlive, taskWaker>>
    /\ UNCHANGED <<rskipped, srcVars, sharedVars, delivered, returned>>

\* The stream is polled by one task, always the same.
PollNext == PollNextWith("w1")

\* The stream is polled by any of the tasks: it has moved from one to another.
PollNextAnyTask == \E w \in TaskWakers : PollNextWith(w)

\* Ok(true) => self.reader.read(&self.filter)
PnRead ==
    /\ pc[StreamTask] = "pn_true"
    /\ op' = [op EXCEPT ![StreamTask] = "readp"]
    /\ pc' = [pc EXCEPT ![StreamTask] = "read_lock"]
    /\ last' = NoRet
    /\ UNCHANGED <<filter, timeout, rskipped>>
    /\ UNCHANGED <<srcVars, sharedVars, streamVars, delivered, returned>>

\* A faulty poll_next that sets the flag and dispatches a task whatever the
\* flag was.  With it C24 fails.
PnClaimWithoutCas ==
    /\ pc[StreamTask] = "pn_false"
    /\ executed' = TRUE
    /\ shutdown' = FALSE
    /\ pc' = [pc EXCEPT ![StreamTask] = "pn_send"]
    /\ UNCHANGED <<op, filter, timeout, rskipped, channel, senderAlive, cx, taskWaker>>
    /\ UNCHANGED <<srcVars, sharedVars, histVars>>

\* Ok(false) => the compare_exchange on the flag; the winner resets the shutdown
\* flag and goes on to send a task, the loser returns Pending.
PnClaim ==
    /\ pc[StreamTask] = "pn_false"
    /\ \/ /\ ~executed
          /\ executed' = TRUE
          /\ shutdown' = FALSE
          /\ pc' = [pc EXCEPT ![StreamTask] = "pn_send"]
       \/ /\ executed
          /\ pc' = [pc EXCEPT ![StreamTask] = "idle"]
          /\ UNCHANGED <<executed, shutdown>>
    /\ UNCHANGED <<op, filter, timeout, rskipped, channel, senderAlive, cx, taskWaker>>
    /\ UNCHANGED <<srcVars, sharedVars, histVars>>

\* Err(err) => Poll::Ready(Some(Err(err)))
PnErr ==
    /\ pc[StreamTask] = "pn_err"
    /\ pc' = [pc EXCEPT ![StreamTask] = "idle"]
    /\ UNCHANGED <<op, filter, timeout, rskipped>>
    /\ UNCHANGED <<srcVars, sharedVars, streamVars, histVars>>

\* self.task_sender.send(Task {..}): blocks while the channel is full.
PnSend ==
    /\ pc[StreamTask] = "pn_send"
    /\ Len(channel) < ChannelCap
    /\ channel' = Append(channel, cx)
    /\ pc' = [pc EXCEPT ![StreamTask] = "idle"]
    /\ UNCHANGED <<op, filter, timeout, rskipped>>
    /\ UNCHANGED <<executed, shutdown, senderAlive, cx, taskWaker>>
    /\ UNCHANGED <<srcVars, sharedVars, histVars>>

\* Drop for EventStream: the shutdown flag, then the waker.
DropStream ==
    /\ pc[StreamTask] = "idle"
    /\ shutdown' = TRUE
    /\ wakePipe' = wakePipe + 1
    /\ pc' = [pc EXCEPT ![StreamTask] = "dropping"]
    /\ UNCHANGED <<tty, parserEvents, sigwinch, nextId, codecVars>>
    /\ UNCHANGED <<op, filter, timeout, rskipped>>
    /\ UNCHANGED <<executed, channel, senderAlive, cx, taskWaker>>
    /\ UNCHANGED <<sharedVars, histVars>>

\* The fields are dropped after Drop::drop ran: the channel loses its sender.
DropFields ==
    /\ pc[StreamTask] = "dropping"
    /\ senderAlive' = FALSE
    /\ pc' = [pc EXCEPT ![StreamTask] = "dropped"]
    /\ UNCHANGED <<op, filter, timeout, rskipped>>
    /\ UNCHANGED <<executed, shutdown, channel, cx, taskWaker>>
    /\ UNCHANGED <<srcVars, sharedVars, histVars>>

\* while let Ok(task) = receiver.recv(): a task starts task_reader.poll(None, ..);
\* an empty channel without a sender ends the thread.
HelperRecv ==
    /\ pc[Helper] = "h_recv"
    /\ \/ /\ channel # <<>>
          /\ channel' = Tail(channel)
          /\ taskWaker' = Head(channel)
          /\ op' = [op EXCEPT ![Helper] = "poll"]
          /\ filter' = [filter EXCEPT ![Helper] = StreamFilter]
          /\ pc' = [pc EXCEPT ![Helper] = "poll_lock"]
          /\ last' = NoRet
       \/ /\ channel = <<>> /\ ~senderAlive
          /\ pc' = [pc EXCEPT ![Helper] = "h_exit"]
          /\ UNCHANGED <<channel, taskWaker, op, filter, last>>
    /\ UNCHANGED <<timeout, rskipped, executed, shutdown, senderAlive, cx>>
    /\ UNCHANGED <<srcVars, sharedVars, delivered, returned>>

\* A faulty helper thread that leaves its loop after any return of its poll.
\* With it C25 fails.
HelperPolledLeavesLoop ==
    /\ pc[Helper] \in {"h_true", "h_other", "h_err"}
    /\ pc' = [pc EXCEPT ![Helper] = "h_clear"]
    /\ UNCHANGED <<op, filter, last>>
    /\ UNCHANGED <<timeout, rskipped>>
    /\ UNCHANGED <<srcVars, sharedVars, streamVars, delivered, returned>>

\* The inner loop of the helper after its poll: Ok(true) or the shutdown flag
\* ends it, anything else (Ok(false) or Err, "h_other" or "h_err") polls again.
HelperPolled ==
    /\ \/ /\ pc[Helper] = "h_true" \/ (pc[Helper] \in {"h_other", "h_err"} /\ shutdown)
          /\ pc' = [pc EXCEPT ![Helper] = "h_clear"]
          /\ UNCHANGED <<op, filter, last>>
       \/ /\ pc[Helper] \in {"h_other", "h_err"} /\ ~shutdown
          /\ op' = [op EXCEPT ![Helper] = "poll"]
          /\ filter' = [filter EXCEPT ![Helper] = StreamFilter]
          /\ pc' = [pc EXCEPT ![Helper] = "poll_lock"]
          /\ last' = NoRet
    /\ UNCHANGED <<timeout, rskipped>>
    /\ UNCHANGED <<srcVars, sharedVars, streamVars, delivered, returned>>

\* task.stream_wake_task_executed.store(false)
HelperClear ==
    /\ pc[Helper] = "h_clear"
    /\ executed' = FALSE
    /\ pc' = [pc EXCEPT ![Helper] = "h_wake"]
    /\ UNCHANGED <<op, filter, timeout, rskipped>>
    /\ UNCHANGED <<shutdown, channel, senderAlive, cx, taskWaker>>
    /\ UNCHANGED <<srcVars, sharedVars, histVars>>

\* task.stream_waker.wake(): the waker the task was sent with is invoked.  The
\* task is dropped and the thread is back at recv.
HelperWake ==
    /\ pc[Helper] = "h_wake"
    /\ taskWaker' = NoWaker
    /\ pc' = [pc EXCEPT ![Helper] = "h_recv"]
    /\ UNCHANGED <<op, filter, timeout, rskipped>>
    /\ UNCHANGED <<executed, shutdown, channel, senderAlive, cx>>
    /\ UNCHANGED <<srcVars, sharedVars, histVars>>

(***************************************************************************)
(* Specifications                                                          *)
(***************************************************************************)

\* One thread uses the reader.
Next ==
    \/ Arrive \/ SigWinch \/ WakerWake
    \/ CallPoll("t1") \/ CallRead("t1")
    \/ PollLock("t1") \/ PollSrc("t1") \/ ReadLock("t1") \/ ReadScan("t1")

Spec == Init /\ [][Next]_vars

\* One thread only polls: no read takes anything out of the FIFO.
PollsNext ==
    \/ Arrive \/ SigWinch \/ WakerWake
    \/ CallPoll("t1") \/ PollLock("t1") \/ PollSrc("t1")

PollsSpec == Init /\ [][PollsNext]_vars

\* The most wakes that pile up in the wake pipe.
MaxWakes == 3

\* One thread only polls while other threads invoke the waker, any number of
\* times before a poll looks at the wake pipe.
WakesNext ==
    \/ Arrive \/ SigWinch \/ WakerWakeUpTo(MaxWakes)
    \/ CallPoll("t1") \/ PollLock("t1") \/ PollSrc("t1")

WakesSpec == Init /\ [][WakesNext]_vars

\* One thread polls and reads, another asks a clone of the reader for its
\* waker.
WakerUserNext ==
    \/ Arrive \/ SigWinch \/ WakerWake
    \/ CallPoll("t1") \/ CallRead("t1")
    \/ PollLock("t1") \/ PollSrc("t1") \/ ReadLock("t1") \/ ReadScan("t1")
    \/ CallWaker("t2") \/ WakerLock("t2")

WakerUserSpec == Init /\ [][WakerUserNext]_vars

\* Two threads call read on clones of one EventReader.
ReadsNext ==
    \/ Arrive \/ SigWinch \/ WakerWake
    \/ \E t \in Consumers : CallRead(t)
    \/ \E t \in Consumers : PollSrc(t) \/ ReadLock(t) \/ ReadScan(t)

ReadsSpec == Init /\ [][ReadsNext]_vars

\* The same with one more event and the order of the returns recorded, when
\* nobody wakes the reader and the operating system reports no failure.
OrderNext ==
    \/ ArriveUpTo(MaxOrderEvents) \/ SigWinchUpTo(MaxOrderEvents)
    \/ \E t \in Consumers : CallRead(t)
    \/ \E t \in Consumers :
          \/ PollSrcWith(t, TryReadReady(timeout[t]))
          \/ ReadLock(t) \/ ReadScanLogged(t)

OrderSpec == Init /\ [][OrderNext]_vars

\* Two threads on clones of one EventReader: one polls and reads, one reads.
PairNext ==
    \/ Arrive \/ SigWinch \/ WakerWake
    \/ CallPoll("t1") \/ \E t \in Consumers : CallRead(t)
    \/ \E t \in Consumers : PollLock(t) \/ PollSrc(t) \/ ReadLock(t) \/ ReadScan(t)

PairSpec == Init /\ [][PairNext]_vars

\* Two threads on clones of one EventReader: one polls, one reads.
TimedNext ==
    \/ ArriveUpTo(MaxTimedEvents) \/ SigWinchUpTo(MaxTimedEvents)
    \/ CallPoll("t1") \/ PollLock("t1") \/ PollSrc("t1")
    \/ CallRead("t2") \/ ReadLock("t2") \/ ReadScan("t2") \/ PollSrc("t2")

TimedSpec == Init /\ [][TimedNext]_vars

\* An EventStream with its helper thread, and one thread that reads from a
\* clone of the stream's reader.
StreamUsers == {"t1", StreamTask, Helper}

StreamNext ==
    \/ Arrive \/ SigWinch
    \/ CallRead("t1")
    \/ \E t \in StreamUsers : PollLock(t) \/ PollSrc(t) \/ ReadLock(t) \/ ReadScan(t)
    \/ PollNext \/ PnRead \/ PnClaim \/ PnErr \/ PnSend \/ DropStream \/ DropFields
    \/ HelperRecv \/ HelperPolled \/ HelperClear \/ HelperWake

StreamSpec == Init /\ [][StreamNext]_vars

\* An EventStream and its helper thread, nobody else on the reader.
BridgeUsers == {StreamTask, Helper}

BridgeNext ==
    \/ Arrive \/ SigWinch
    \/ \E t \in BridgeUsers : PollLock(t) \/ PollSrc(t) \/ ReadLock(t) \/ ReadScan(t)
    \/ PollNext \/ PnRead \/ PnClaim \/ PnErr \/ PnSend \/ DropStream \/ DropFields
    \/ HelperRecv \/ HelperPolled \/ HelperClear \/ HelperWake

BridgeSpec == Init /\ [][BridgeNext]_vars

\* The same when the stream moves between tasks: every poll_next comes with
\* the waker of the task that calls it.
MovedNext ==
    \/ Arrive \/ SigWinch
    \/ \E t \in BridgeUsers : PollLock(t) \/ PollSrc(t) \/ ReadLock(t) \/ ReadScan(t)
    \/ PollNextAnyTask \/ PnRead \/ PnClaim \/ PnErr \/ PnSend
    \/ DropStream \/ DropFields
    \/ HelperRecv \/ HelperPolled \/ HelperClear \/ HelperWake

MovedSpec == Init /\ [][MovedNext]_vars

\* What the scheduler and a fair lock guarantee: a thread that can take its
\* next step again and again takes it, so no thread starves at the lock.
\* Nothing obliges the terminal to deliver input, the operating system to
\* fail, or the application to make another call.
Progress(t) ==
    \/ PollLock(t) \/ PollSrcWith(t, TryReadReady(timeout[t]))
    \/ ReadLock(t) \/ ReadScan(t)

StreamProgress == PnRead \/ PnClaim \/ PnErr \/ PnSend \/ DropFields

HelperProgress == HelperRecv \/ HelperPolled \/ HelperClear \/ HelperWake

FairStreamSpec ==
    /\ StreamSpec
    /\ \A t \in StreamUsers : SF_vars(Progress(t))
    /\ WF_vars(StreamProgress)
    /\ WF_vars(HelperProgress)

(***************************************************************************)
(* Properties                                                              *)
(***************************************************************************)

Ids(seq) == {seq[i].id : i \in DOMAIN seq}

RemoveAt(seq, i) == SubSeq(seq, 1, i - 1) \o SubSeq(seq, i + 1, Len(seq))

\* The step in which the read call of thread t returns an event.
ReadReturns(t) == pc[t] = "read_scan" /\ pc'[t] = "idle"

\* Thread t is inside a read call.
InRead(t) == op[t] \in {"read", "readp"}

\* Thread t cannot go on before another thread releases the lock.
WaitsOnLock(t) ==
    /\ pc[t] \in {"read_lock", "poll_lock", "waker_lock"}
    /\ lock # NoThread
    /\ InRead(t) \/ timeout[t] = "none"

\* Thread t cannot go on before the byte source has something for it.
WaitsOnSource(t) ==
    pc[t] = "poll_src" /\ lock = t /\ timeout[t] = "none" /\ ~SourceReady

\* C1: read(P) removes exactly one event matching P, and the other events of
\* the FIFO keep their order: when a read returns, the FIFO is what the call
\* had found in it (the events it popped before, then the present FIFO) with
\* one event matching P taken out and nothing else moved.
C1_ReadKeepsFifoOrder ==
    [][\A t \in Threads :
         ReadReturns(t) =>
            LET before == rskipped[t] \o events
            IN  \E i \in DOMAIN before :
                   /\ Matches(filter[t], before[i])
                   /\ events' = RemoveAt(before, i)]_vars

\* C2: the events returned to reads with one predicate come out in arrival
\* order, and no event is returned twice.
C2_ReturnsInArrivalOrder ==
    \A i, j \in DOMAIN returned :
        i < j =>
           /\ returned[i].id # returned[j].id
           /\ returned[i].filter = returned[j].filter
                 => returned[i].id < returned[j].id

\* The events the reader holds: the FIFO, the scratch list, and the skipped
\* lists of the reads in progress.
Held ==
    Ids(events) \cup Ids(skipped_events)
        \cup UNION {Ids(rskipped[t]) : t \in Threads}

\* C3: every event drawn from the source has been returned by exactly one read
\* or is still held by the reader.
C3_NoEventDropped ==
    \A id \in 1..(nextId - 1) :
        \/ delivered[id] = 1 /\ id \notin Held
        \/ delivered[id] = 0 /\ id \in Held

\* C4: no event is returned by two read calls, whatever threads read from
\* clones of the reader with overlapping predicates.
C4_NoEventReturnedTwice ==
    \A id \in DOMAIN delivered : delivered[id] <= 1

\* A read has returned an event while another thread is inside a read whose
\* predicate accepts that event too.
C4_Witness ==
    /\ last.op = "read" /\ last.val = "event"
    /\ \E t \in Consumers :
          /\ t # last.by
          /\ InRead(t)
          /\ Matches(filter[t], last.ev)
          /\ delivered[last.ev.id] = 1

\* The step of a poll with a zero timeout that ends the call.
PollZeroStep(t) ==
    /\ op[t] = "poll" /\ timeout[t] = "zero"
    /\ pc[t] \in {"poll_lock", "poll_src"}
    /\ pc'[t] \in {"idle", "polled"}

\* C5: poll(P, 0) changes neither the set nor the order of the buffered
\* events.  Read as generously as can be: the events that were in the FIFO
\* stay at its head in their order, and what the call draws from the source
\* is queued behind them.
C5_PollZeroKeepsBuffer ==
    [][\A t \in Threads :
          PollZeroStep(t) =>
             /\ Len(events') >= Len(events)
             /\ SubSeq(events', 1, Len(events)) = events]_vars

\* One thread uses the reader and is scheduled fairly.
FairSpec == Spec /\ SF_vars(Progress("t1"))

\* C6: a read that is blocked in the byte source returns once the Waker has
\* been invoked.
C6_WokenReadReturns ==
    \A t \in Consumers :
        (InRead(t) /\ pc[t] = "poll_src" /\ wakePipe > 0) ~> (pc[t] = "idle")

\* C7: a poll that the Waker interrupts in the byte source returns Ok(false),
\* never an error.
C7_WokenPollReturnsFalse ==
    (last.op = "poll" /\ last.why = "interrupted") => last.val = "false"

\* A poll without a timeout has been interrupted by the Waker and has returned.
C7_Witness ==
    last.op = "poll" /\ last.tm = "none" /\ last.why = "interrupted"

\* Thread t cannot go on until the terminal sends input: it waits for the byte
\* source, or for the lock that a thread waiting for the byte source holds.
Blocked(t) ==
    \/ WaitsOnSource(t)
    \/ WaitsOnLock(t) /\ lock \in Threads /\ WaitsOnSource(lock)

\* C8: after poll(P, t) has returned Ok(true), the read(P) that follows does
\* not wait on the byte source or on the reader lock, also when another thread
\* uses a clone of the reader.
C8_ReadAfterPollDoesNotBlock ==
    \A t \in Consumers : op[t] = "readp" => ~Blocked(t)

\* C9: poll_next never blocks the calling task: not on the byte source, not
\* on the reader lock, not on the task channel.
C9_PollNextDoesNotBlock ==
    /\ ~Blocked(StreamTask)
    /\ pc[StreamTask] = "pn_send" => Len(channel) < ChannelCap

\* C10: after the EventStream is dropped its helper thread exits.
C10_HelperExitsAfterDrop ==
    (pc[StreamTask] = "dropped") ~> (pc[Helper] = "h_exit")

\* C11: an I/O error of the byte source other than Interrupted is returned to
\* the caller of poll or read.  A call that ends on such an error returns Err,
\* and the poll inside a read hands control back to the read's loop only
\* because it drew an event or was woken, never because it swallowed an error.
C11_IoErrorIsReturned ==
    [][/\ last'.why = "error" => last'.val = "err"
       /\ \A t \in Threads :
             (pc[t] = "poll_src" /\ pc'[t] = "read_scan")
                => (nextId' = nextId + 1 \/ (wakePipe > 0 /\ wakePipe' = 0))]_vars

\* A read has met an I/O error in the source, after events were drawn, and
\* has returned it.
C11_Witness ==
    /\ last.op = "read" /\ last.val = "err" /\ last.why = "error"
    /\ nextId > 1

\* C12: when the byte source fails in the helper thread's blocking poll, the
\* consumer's task is resumed (and poll_next then yields the error): the
\* helper's next step after the failure leaves its polling loop to wake the
\* task.
C12_HelperReportsIoError ==
    [][(pc[Helper] = "h_err" /\ pc'[Helper] # "h_err")
          => pc'[Helper] = "h_clear"]_vars

\* What the last call of poll_next on the reader makes poll_next return.
StreamItem ==
    IF last.by = StreamTask THEN PollNextItem(last.op, last.val) ELSE "none"

\* C13: poll_next never returns Ready(None), in any state and after any error.
C13_StreamNeverEnds == StreamItem # "ready_none"

\* The poll inside poll_next has failed after events were drawn, and poll_next
\* returns the error as an item.
C13_Witness ==
    /\ last.by = StreamTask /\ last.op = "poll" /\ nextId > 1
    /\ StreamItem = "ready_some_err"

\* TimedSpec where the polling thread is scheduled and time goes on: when it
\* can take a step that changes something, it takes one, so that a timeout
\* that is running ends.  Nothing is asked of the reading thread.
FairTimedSpec == TimedSpec /\ WF_vars(Progress("t1"))

\* C14: a poll with a timeout always returns, also while another thread
\* holds the lock without end and while the source delivers events that do
\* not match.
C14_TimedPollReturns ==
    (op["t1"] = "poll" /\ timeout["t1"] # "none") ~> (op["t1"] = "none")

\* A poll with a timeout has returned Ok(false) at the lock, which a thread
\* blocked in read holds.
C14_Witness ==
    /\ last.op = "poll" /\ last.tm = "finite" /\ last.why = "lock_timeout"
    /\ lock \in Consumers /\ InRead(lock) /\ WaitsOnSource(lock)

(***************************************************************************)
(* The decoder: src/parse.rs                                               *)
(*                                                                         *)
(* Bytes are the integers 0..255 and a buffer is a sequence of bytes.  A   *)
(* char is its code point.  Modifiers and KeyEventState are bitflags over  *)
(* u8 and are modelled by their bits.  A KeyCode is a tuple: its variant,  *)
(* then the variant's field if it has one.                                 *)
(***************************************************************************)

\* The flags of Modifiers and of KeyEventState (src/event.rs); NONE is 0 in both.
NONE == 0
SHIFT == 2
ALT == 4
CONTROL == 8
SUPER == 16
HYPER == 32
META == 32
KEYPAD == 2
CAPS_LOCK == 4
NUM_LOCK == 8

\* a | b and a & b on unsigned integers
RECURSIVE BitOr(_, _)
BitOr(a, b) ==
    IF a = 0 THEN b
    ELSE IF b = 0 THEN a
    ELSE (IF a % 2 = 1 \/ b % 2 = 1 THEN 1 ELSE 0) + 2 * BitOr(a \div 2, b \div 2)

RECURSIVE BitAnd(_, _)
BitAnd(a, b) ==
    IF a = 0 \/ b = 0 THEN 0
    ELSE (IF a % 2 = 1 /\ b % 2 = 1 THEN 1 ELSE 0) + 2 * BitAnd(a \div 2, b \div 2)

\* flags |= flag, once for every flag of the sequence
RECURSIVE OrAll(_)
OrAll(flags) == IF flags = <<>> THEN NONE ELSE BitOr(flags[1], OrAll(Tail(flags)))

\* Event::Key(KeyEvent { code, modifiers, kind, state })
KeyEvent(code, modifiers, kind, state) ==
    [type |-> "Key", code |-> code, modifiers |-> modifiers,
     kind |-> kind, state |-> state]

\* KeyEvent::new(code, modifiers), and KeyCode::into() with no modifiers
KeyEventNew(code, modifiers) == KeyEvent(code, modifiers, "Press", NONE)

\* The values of Result<Option<InternalEvent>>, and a call that does not return.
OkSome(ev) == [res |-> "event", ev |-> ev]
OkNone == [res |-> "none"]
Malformed == [res |-> "err"]
Panic == [res |-> "panic"]

\* byte & !0b0011_1111 == 0b1000_0000
IsContinuation(byte) == byte \in 128..191

\* core::str::from_utf8 on the head of b: the length of the well-formed
\* character b starts with, 0 if b does not start with one.
Utf8Head(b) ==
    LET n == Len(b)
    IN  IF n = 0 THEN 0
        ELSE IF b[1] <= 127 THEN 1
        ELSE IF b[1] \in 194..223
        THEN IF n >= 2 /\ IsContinuation(b[2]) THEN 2 ELSE 0
        ELSE IF b[1] \in 224..239
        THEN IF /\ n >= 3
                /\ b[2] \in (CASE b[1] = 224 -> 160..191
                               [] b[1] = 237 -> 128..159
                               [] OTHER -> 128..191)
                /\ IsContinuation(b[3])
             THEN 3 ELSE 0
        ELSE IF b[1] \in 240..244
        THEN IF /\ n >= 4
                /\ b[2] \in (CASE b[1] = 240 -> 144..191
                               [] b[1] = 244 -> 128..143
                               [] OTHER -> 128..191)
                /\ IsContinuation(b[3]) /\ IsContinuation(b[4])
             THEN 4 ELSE 0
        ELSE 0

\* str::from_utf8(b).is_ok()
RECURSIVE Utf8Valid(_)
Utf8Valid(b) ==
    \/ b = <<>>
    \/ /\ Utf8Head(b) > 0
       /\ Utf8Valid(SubSeq(b, Utf8Head(b) + 1, Len(b)))

\* s.chars().next().unwrap() of a well-formed, nonempty s
FirstChar(b) ==
    CASE Utf8Head(b) = 1 -> b[1]
      [] Utf8Head(b) = 2 -> (b[1] - 192) * 64 + (b[2] - 128)
      [] Utf8Head(b) = 3 -> (b[1] - 224) * 4096 + (b[2] - 128) * 64 + (b[3] - 128)
      [] Utf8Head(b) = 4 -> (b[1] - 240) * 262144 + (b[2] - 128) * 4096
                               + (b[3] - 128) * 64 + (b[4] - 128)

\* The code points on which char::is_uppercase is modelled: those with the
\* Uppercase property, and those without it.  A code point outside both sets
\* is outside the model.
UppercaseChars ==
    (65..90) \cup (192..214) \cup (216..222)    \* A-Z, Latin-1 capitals
        \cup (9398..9423)                        \* circled capitals U+24B6..
        \cup (65313..65338)                      \* fullwidth capitals U+FF21..
NotUppercaseChars ==
    ((0..255) \ UppercaseChars)
        \cup (2048..2111)                        \* Samaritan, Mandaic
        \cup (2304..2431)                        \* Devanagari
        \cup (4352..4607)                        \* Hangul Jamo
        \cup (8192..8447)                        \* punctuation .. currency signs
        \cup (12352..12543)                      \* Hiragana, Katakana
        \cup (19968..40959)                      \* CJK unified ideographs
        \cup (44032..55295)                      \* Hangul syllables .. U+D7FF
        \cup (57344..63743)                      \* private use
        \cup (65520..65535)                      \* specials

\* ch.is_uppercase()
is_uppercase(ch) ==
    CASE ch \in UppercaseChars -> TRUE
      [] ch \in NotUppercaseChars -> FALSE

\* parse_utf8_char with every incomplete character refused at once.
Utf8NeverWaits(b) ==
    IF Utf8Valid(b) THEN [res |-> "char", ch |-> FirstChar(b)] ELSE Malformed

\* parse_utf8_char: Ok(Some(ch)), Ok(None) or Err
parse_utf8_char(b) ==
    IF Utf8Valid(b) THEN [res |-> "char", ch |-> FirstChar(b)]
    ELSE IF b[1] \in 128..191 \/ b[1] >= 248 THEN Malformed
    ELSE LET required_bytes == IF b[1] <= 127 THEN 1
                               ELSE IF b[1] <= 223 THEN 2
                               ELSE IF b[1] <= 239 THEN 3 ELSE 4
         IN  IF /\ required_bytes > 1 /\ Len(b) > 1
                /\ \E i \in 2..Len(b) : ~IsContinuation(b[i])
             THEN Malformed
             ELSE IF Len(b) < required_bytes THEN OkNone ELSE Malformed

\* s.split(sep): the pieces of s between the occurrences of the byte sep
RECURSIVE Split(_, _)
Split(s, sep) ==
    IF \E i \in 1..Len(s) : s[i] = sep
    THEN LET i == CHOOSE k \in 1..Len(s) :
                      s[k] = sep /\ \A j \in 1..(k - 1) : s[j] # sep
         IN  <<SubSeq(s, 1, i - 1)>> \o Split(SubSeq(s, i + 1, Len(s)), sep)
    ELSE <<s>>

\* The value of a string of decimal digits, read left to right and held at
\* the first value above max.
RECURSIVE DigitsValue(_, _, _)
DigitsValue(d, acc, max) ==
    IF d = <<>> \/ acc > max THEN acc
    ELSE DigitsValue(Tail(d), acc * 10 + (d[1] - 48), max)

\* str::parse::<u8>() with max = 255, and ::<u32>() followed by char::from_u32
\* with max = 0x10FFFF (every u32 above it is no char, and no functional key
\* code either).  An optional '+', then at least one digit; -1 stands for Err.
ParseUnsigned(s, max) ==
    LET d == IF s # <<>> /\ s[1] = 43 THEN Tail(s) ELSE s
    IN  IF d = <<>> \/ \E i \in 1..Len(d) : d[i] \notin 48..57 THEN -1
        ELSE IF DigitsValue(d, 0, max) > max THEN -1
        ELSE DigitsValue(d, 0, max)

\* bit & mask != 0
HasBit(mask, bit) == (mask \div bit) % 2 = 1

\* mask.saturating_sub(1)
SaturatingPred(mask) == IF mask = 0 THEN 0 ELSE mask - 1

parse_modifiers(mask) ==
    LET modifier_mask == SaturatingPred(mask)
    IN  OrAll(<<IF HasBit(modifier_mask, 1) THEN SHIFT ELSE NONE,
                IF HasBit(modifier_mask, 2) THEN ALT ELSE NONE,
                IF HasBit(modifier_mask, 4) THEN CONTROL ELSE NONE,
                IF HasBit(modifier_mask, 8) THEN SUPER ELSE NONE,
                IF HasBit(modifier_mask, 16) THEN HYPER ELSE NONE,
                IF HasBit(modifier_mask, 32) THEN META ELSE NONE>>)

parse_modifiers_to_state(mask) ==
    LET modifier_mask == SaturatingPred(mask)
    IN  OrAll(<<IF HasBit(modifier_mask, 64) THEN CAPS_LOCK ELSE NONE,
                IF HasBit(modifier_mask, 128) THEN NUM_LOCK ELSE NONE>>)

parse_key_event_kind(kind) ==
    CASE kind = 2 -> "Repeat" [] kind = 3 -> "Release" [] OTHER -> "Press"

\* modifier_and_kind_parsed on the pieces the iterator has still to yield
modifier_and_kind_parsed(iter) ==
    IF iter = <<>> THEN [ok |-> FALSE]
    ELSE LET sub_split == Split(iter[1], 58)
             modifier_mask == ParseUnsigned(sub_split[1], 255)
             kind_code == IF Len(sub_split) >= 2
                          THEN ParseUnsigned(sub_split[2], 255) ELSE -1
         IN  IF modifier_mask < 0 THEN [ok |-> FALSE]
             ELSE [ok |-> TRUE, mask |-> modifier_mask,
                   kind |-> IF kind_code >= 0 THEN kind_code ELSE 1]

\* The key codes named by the final byte of a CSI sequence with parameters.
ModifierKeyCodeOf(key) ==
    CASE key = 65 -> <<"Up">> [] key = 66 -> <<"Down">>
      [] key = 67 -> <<"Right">> [] key = 68 -> <<"Left">>
      [] key = 70 -> <<"End">> [] key = 72 -> <<"Home">>
      [] key = 80 -> <<"Function", 1>> [] key = 81 -> <<"Function", 2>>
      [] key = 82 -> <<"Function", 3>> [] key = 83 -> <<"Function", 4>>
      [] OTHER -> <<>>

parse_csi_modifier_key_code(buf) ==
    LET s == SubSeq(buf, 3, Len(buf) - 1)
        mk == modifier_and_kind_parsed(Tail(Split(s, 59)))
        before_last == buf[Len(buf) - 1]
        key == buf[Len(buf)]
    IN  IF ~Utf8Valid(s) THEN Malformed
        ELSE IF ~mk.ok /\ Len(buf) > 3 /\ before_last \notin 48..57 THEN Malformed
        ELSE IF ModifierKeyCodeOf(key) = <<>> THEN Malformed
        ELSE OkSome(KeyEvent(
                ModifierKeyCodeOf(key),
                IF mk.ok THEN parse_modifiers(mk.mask)
                ELSE IF Len(buf) > 3 THEN parse_modifiers(before_last - 48)
                ELSE NONE,
                IF mk.ok THEN parse_key_event_kind(mk.kind) ELSE "Press",
                NONE))

\* The key codes named by the first parameter of CSI .. ~
SpecialKeyCodeOf(first) ==
    CASE first \in {1, 7} -> <<"Home">>
      [] first = 2 -> <<"Insert">>
      [] first = 3 -> <<"Delete">>
      [] first \in {4, 8} -> <<"End">>
      [] first = 5 -> <<"PageUp">>
      [] first = 6 -> <<"PageDown">>
      [] first \in 11..15 -> <<"Function", first - 10>>
      [] first \in 17..21 -> <<"Function", first - 11>>
      [] first \in 23..26 -> <<"Function", first - 12>>
      [] first \in 28..29 -> <<"Function", first - 15>>
      [] first \in 31..34 -> <<"Function", first - 17>>
      [] OTHER -> <<>>

parse_csi_special_key_code(buf) ==
    LET s == SubSeq(buf, 3, Len(buf) - 1)
        split == Split(s, 59)
        first == ParseUnsigned(split[1], 255)
        mk == modifier_and_kind_parsed(Tail(split))
    IN  IF ~Utf8Valid(s) \/ first < 0 THEN Malformed
        ELSE IF SpecialKeyCodeOf(first) = <<>> THEN Malformed
        ELSE OkSome(KeyEvent(
                SpecialKeyCodeOf(first),
                IF mk.ok THEN parse_modifiers(mk.mask) ELSE NONE,
                IF mk.ok THEN parse_key_event_kind(mk.kind) ELSE "Press",
                IF mk.ok THEN parse_modifiers_to_state(mk.mask) ELSE NONE))

\* The key codes of the Kitty keyboard protocol, 57358..57454, with the
\* KeyEventState that goes with them; <<>> stands for None.
KeypadCodes ==
    <<<<"Char", 48>>, <<"Char", 49>>, <<"Char", 50>>, <<"Char", 51>>, <<"Char", 52>>,
      <<"Char", 53>>, <<"Char", 54>>, <<"Char", 55>>, <<"Char", 56>>, <<"Char", 57>>,
      <<"Char", 46>>, <<"Char", 47>>, <<"Char", 42>>, <<"Char", 45>>, <<"Char", 43>>,
      <<"Enter">>, <<"Char", 61>>, <<"Char", 44>>,
      <<"Left">>, <<"Right">>, <<"Up">>, <<"Down">>, <<"PageUp">>, <<"PageDown">>,
      <<"Home">>, <<"End">>, <<"Insert">>, <<"Delete">>, <<"KeypadBegin">>>>
LockCodes ==
    <<<<"CapsLock">>, <<"ScrollLock">>, <<"NumLock">>, <<"PrintScreen">>,
      <<"Pause">>, <<"Menu">>>>
MediaCodes ==
    <<"Play", "Pause", "PlayPause", "Reverse", "Stop", "FastForward", "Rewind",
      "TrackNext", "TrackPrevious", "Record", "LowerVolume", "RaiseVolume",
      "MuteVolume">>
ModifierCodes ==
    <<"LeftShift", "LeftControl", "LeftAlt", "LeftSuper", "LeftHyper", "LeftMeta",
      "RightShift", "RightControl", "RightAlt", "RightSuper", "RightHyper",
      "RightMeta", "IsoLevel3Shift", "IsoLevel5Shift">>

translate_functional_key_code(codepoint) ==
    CASE codepoint \in 57399..57427 ->
            [code |-> KeypadCodes[codepoint - 57398], state |-> KEYPAD]
      [] codepoint \in 57358..57363 ->
            [code |-> LockCodes[codepoint - 57357], state |-> NONE]
      [] codepoint \in 57376..57398 ->
            [code |-> <<"Function", codepoint - 57363>>, state |-> NONE]
      [] codepoint \in 57428..57440 ->
            [code |-> <<"Media", MediaCodes[codepoint - 57427]>>, state |-> NONE]
      [] codepoint \in 57441..57454 ->
            [code |-> <<"Modifier", ModifierCodes[codepoint - 57440]>>, state |-> NONE]
      [] OTHER -> [code |-> <<>>, state |-> NONE]

\* char::from_u32(codepoint).is_some()
IsChar(codepoint) ==
    codepoint \in 0..1114111 /\ codepoint \notin 55296..57343

\* The modifier a ModifierKeyCode stands for, if any.
ModifierOfKeyCode(code) ==
    IF code[1] # "Modifier" THEN NONE
    ELSE CASE code[2] \in {"LeftAlt", "RightAlt"} -> ALT
           [] code[2] \in {"LeftControl", "RightControl"} -> CONTROL
           [] code[2] \in {"LeftShift", "RightShift"} -> SHIFT
           [] code[2] \in {"LeftSuper", "RightSuper"} -> SUPER
           [] code[2] \in {"LeftHyper", "RightHyper"} -> HYPER
           [] code[2] \in {"LeftMeta", "RightMeta"} -> META
           [] OTHER -> NONE

\* modifiers.contains(flag)
Contains(modifiers, flag) == BitAnd(modifiers, flag) = flag

\* modifiers.set(flag, false)
Without(modifiers, flag) == modifiers - BitAnd(modifiers, flag)

parse_csi_u_encoded_key_code(buf) ==
    LET s == SubSeq(buf, 3, Len(buf) - 1)
        split == Split(s, 59)
        codepoints == Split(split[1], 58)
        codepoint == ParseUnsigned(codepoints[1], 1114111)
        mk == modifier_and_kind_parsed(Tail(split))
        functional == translate_functional_key_code(codepoint)
        code == IF functional.code # <<>> THEN functional.code
                ELSE CASE codepoint = 27 -> <<"Escape">>
                       [] codepoint = 13 -> <<"Enter">>
                       [] codepoint = 9 ->
                            IF mk.ok /\ Contains(parse_modifiers(mk.mask), SHIFT)
                            THEN <<"BackTab">> ELSE <<"Tab">>
                       [] codepoint = 127 -> <<"Backspace">>
                       [] OTHER -> <<"Char", codepoint>>
        modifiers == BitOr(IF mk.ok THEN parse_modifiers(mk.mask) ELSE NONE,
                           ModifierOfKeyCode(code))
        shifted == IF Len(codepoints) >= 2
                   THEN ParseUnsigned(codepoints[2], 1114111) ELSE -1
        shift_applies == Contains(modifiers, SHIFT) /\ IsChar(shifted)
    IN  IF ~Utf8Valid(s) \/ codepoint < 0 THEN Malformed
        ELSE IF functional.code = <<>> /\ ~IsChar(codepoint) THEN Malformed
        ELSE OkSome(KeyEvent(
                IF shift_applies THEN <<"Char", shifted>> ELSE code,
                IF shift_applies THEN Without(modifiers, SHIFT) ELSE modifiers,
                IF mk.ok THEN parse_key_event_kind(mk.kind) ELSE "Press",
                BitOr(functional.state,
                      IF mk.ok THEN parse_modifiers_to_state(mk.mask) ELSE NONE)))

\* The key codes of ESC O x and of ESC [ x that the two share.
CursorKeyCodeOf(byte) ==
    CASE byte = 68 -> <<"Left">> [] byte = 67 -> <<"Right">>
      [] byte = 65 -> <<"Up">> [] byte = 66 -> <<"Down">>
      [] byte = 72 -> <<"Home">> [] byte = 70 -> <<"End">>
      [] OTHER -> <<>>

\* parse_csi: buffer starts with ESC [.  The arms for 'M' and '<' are todo!().
parse_csi(buf) ==
    IF Len(buf) = 2 THEN OkNone
    ELSE LET b2 == buf[3]
             last_byte == buf[Len(buf)]
         IN  CASE b2 = 91 ->
                    IF Len(buf) < 4 THEN OkNone
                    ELSE IF buf[4] \in 65..69
                    THEN OkSome(KeyEventNew(<<"Function", 1 + buf[4] - 65>>, NONE))
                    ELSE Malformed
               [] CursorKeyCodeOf(b2) # <<>> -> OkSome(KeyEventNew(CursorKeyCodeOf(b2), NONE))
               [] b2 = 90 -> OkSome(KeyEvent(<<"BackTab">>, SHIFT, "Press", NONE))
               [] b2 = 77 -> Panic
               [] b2 = 60 -> Panic
               [] b2 = 73 -> OkSome([type |-> "FocusIn"])
               [] b2 = 79 -> OkSome([type |-> "FocusOut"])
               [] b2 = 59 -> parse_csi_modifier_key_code(buf)
               [] b2 = 80 -> OkSome(KeyEventNew(<<"Function", 1>>, NONE))
               [] b2 = 81 -> OkSome(KeyEventNew(<<"Function", 2>>, NONE))
               [] b2 = 83 -> OkSome(KeyEventNew(<<"Function", 4>>, NONE))
               [] b2 \in 48..57 ->
                    IF Len(buf) = 3 THEN OkNone
                    ELSE IF last_byte \notin 64..126 THEN OkNone
                    ELSE IF last_byte = 126 THEN parse_csi_special_key_code(buf)
                    ELSE IF last_byte = 117 THEN parse_csi_u_encoded_key_code(buf)
                    ELSE parse_csi_modifier_key_code(buf)
               [] OTHER -> Malformed

\* A buffer that is the single byte ESC, resolved at once as the Escape key.
EscAloneIsKey(maybe_more) == OkSome(KeyEventNew(<<"Escape">>, NONE))

\* parse_event on a buffer that is the single byte ESC
EscAlone(maybe_more) ==
    IF maybe_more THEN OkNone ELSE OkSome(KeyEventNew(<<"Escape">>, NONE))

\* The closure of parse_event's last ESC arm: ALT is added to a key event.
WithAlt(r) ==
    IF r.res = "event" /\ r.ev.type = "Key"
    THEN OkSome([r.ev EXCEPT !.modifiers = BitOr(@, ALT)])
    ELSE r

RECURSIVE parse_event(_, _)
parse_event(buf, maybe_more) ==
    IF buf = <<>> THEN OkNone
    ELSE IF buf[1] = 27
    THEN IF Len(buf) = 1 THEN EscAlone(maybe_more)
         ELSE IF buf[2] = 79
         THEN IF Len(buf) = 2 THEN OkNone
              ELSE IF CursorKeyCodeOf(buf[3]) # <<>>
              THEN OkSome(KeyEventNew(CursorKeyCodeOf(buf[3]), NONE))
              ELSE IF buf[3] \in 80..83
              THEN OkSome(KeyEventNew(<<"Function", 1 + buf[3] - 80>>, NONE))
              ELSE Malformed
         ELSE IF buf[2] = 91 THEN parse_csi(buf)
         ELSE IF buf[2] = 27 THEN OkSome(KeyEventNew(<<"Escape">>, NONE))
         ELSE WithAlt(parse_event(Tail(buf), maybe_more))
    ELSE IF buf[1] = 13 THEN OkSome(KeyEventNew(<<"Enter">>, NONE))
    ELSE IF buf[1] = 9 THEN OkSome(KeyEventNew(<<"Tab">>, NONE))
    ELSE IF buf[1] = 127 THEN OkSome(KeyEventNew(<<"Backspace">>, NONE))
    ELSE IF buf[1] = 0 THEN OkSome(KeyEventNew(<<"Char", 32>>, CONTROL))
    ELSE IF buf[1] \in 1..26
    THEN OkSome(KeyEventNew(<<"Char", buf[1] - 1 + 97>>, CONTROL))
    ELSE IF buf[1] \in 28..31
    THEN OkSome(KeyEventNew(<<"Char", buf[1] - 28 + 52>>, CONTROL))
    ELSE LET maybe_char == parse_utf8_char(buf)
         IN  IF maybe_char.res = "char"
             THEN OkSome(KeyEventNew(<<"Char", maybe_char.ch>>,
                                     IF is_uppercase(maybe_char.ch)
                                     THEN SHIFT ELSE NONE))
             ELSE maybe_char

\* The loop of Parser::process_bytes from its iteration n on: the value of
\* start after the loop and the events pushed, or the panic that ended it.
RECURSIVE ProcessFrom(_, _, _, _, _)
ProcessFrom(buf, maybe_more, start, n, pushed) ==
    IF n = Len(buf) THEN [start |-> start, pushed |-> pushed, panic |-> FALSE]
    ELSE LET end == n + 1
             r == parse_event(SubSeq(buf, start + 1, end),
                              maybe_more \/ end < Len(buf))
         IN  CASE r.res = "event" ->
                    ProcessFrom(buf, maybe_more, end, end, Append(pushed, r.ev))
               [] r.res = "none" -> ProcessFrom(buf, maybe_more, start, end, pushed)
               [] r.res = "err" -> ProcessFrom(buf, maybe_more, end, end, pushed)
               [] r.res = "panic" ->
                    [start |-> start, pushed |-> pushed, panic |-> TRUE]

process_bytes(buf, maybe_more) == ProcessFrom(buf, maybe_more, 0, 0, <<>>)

\* Parser::advance(len) on the buffer
advance(buf, len) == SubSeq(buf, len + 1, Len(buf))

\* r is what process_bytes made of the buffer buf.
ParseDone(bytes, maybe_more, buf, r) ==
    /\ ~panicked
    /\ parserEvents' = parserEvents \o r.pushed
    /\ panicked' = r.panic
    /\ buffer' = IF r.panic THEN buf ELSE advance(buf, r.start)
    /\ fed' = [bytes |-> bytes, more |-> maybe_more, before |-> buffer,
               had |-> Len(parserEvents)]

\* Parser::parse(bytes, maybe_more).  A panic inside parse_event unwinds out
\* of the call: the bytes are in the buffer already, advance has not run.
Parse(bytes, maybe_more) ==
    ParseDone(bytes, maybe_more, buffer \o bytes,
              process_bytes(buffer \o bytes, maybe_more))

\* The terminal delivers the next bytes of its input and the decoder is fed
\* with them.
Feed ==
    /\ input # <<>>
    /\ \E k \in 1..Len(input), maybe_more \in BOOLEAN :
          /\ Parse(SubSeq(input, 1, k), maybe_more)
          /\ input' = SubSeq(input, k + 1, Len(input))
    /\ UNCHANGED <<tty, sigwinch, wakePipe, nextId, sent, oneBased, written, popped>>
    /\ UNCHANGED <<sharedVars, callVars, streamVars, histVars>>

\* The bytes the inputs of the decoder are built from: ESC, '[', 'O', 'M',
\* '<', 'A', '1', ';', '~', 'a', and the two bytes of U+00E9.
ParseBytes == {27, 91, 79, 77, 60, 65, 49, 59, 126, 97, 195, 169}

\* Longest input built from ParseBytes in every possible way.
MaxInputLen == 3

\* Every byte string of length 1..MaxInputLen over ParseBytes.
ShortInputs ==
    UNION {[1..n -> ParseBytes] : n \in 1..MaxInputLen}

\* Longer inputs: ESC [ 1 ; 5 A, ESC [ 3 ; 2 ~, ESC [ 9 7 ; 5 u, ESC O P a,
\* a ESC [ M.
LongInputs ==
    {<<27, 91, 49, 59, 53, 65>>, <<27, 91, 51, 59, 50, 126>>,
     <<27, 91, 57, 55, 59, 53, 117>>, <<27, 79, 80, 97>>, <<97, 27, 91, 77>>}

\* A fresh Parser and the input the terminal is going to deliver.
ParseInitWith(inputs) ==
    /\ ReaderInit
    /\ buffer = <<>> /\ input \in inputs /\ panicked = FALSE
    /\ fed = NoFeed /\ sent = NoCmd /\ oneBased = NoOneBased
    /\ written = <<>> /\ popped = <<>>

ParseNext == Feed

\* The decoder alone, fed in every chunking with either flag.
ParseSpec == ParseInitWith(ShortInputs \cup LongInputs) /\ [][ParseNext]_vars

\* The three bytes 1110xxxx 10xxxxxx 10xxxxxx of a character of U+0800..U+FFFF.
Utf8Encode3(ch) ==
    <<224 + (ch \div 4096), 128 + ((ch \div 64) % 64), 128 + (ch % 64)>>

\* The characters with a three-byte encoding the decoder is fed with: of those
\* on which is_uppercase is modelled, every character of U+2000..U+20FF and
\* every character whose last byte is 0x80 or 0xBF.
ThreeByteChars ==
    {ch \in UppercaseChars \cup NotUppercaseChars :
        ch >= 2048 /\ (ch \in 8192..8447 \/ ch % 64 \in {0, 63})}

\* A fresh Parser, and a terminal about to deliver one three-byte character.
Utf8Init ==
    /\ ReaderInit
    /\ sent \in {[cmd |-> "char", ch |-> ch] : ch \in ThreeByteChars}
    /\ input = Utf8Encode3(sent.ch)
    /\ buffer = <<>> /\ panicked = FALSE
    /\ fed = NoFeed /\ oneBased = NoOneBased
    /\ written = <<>> /\ popped = <<>>

Utf8Spec == Utf8Init /\ [][ParseNext]_vars

(***************************************************************************)
(* The encoder of the reports a terminal sends: src/escape/csi.rs          *)
(***************************************************************************)

\* Display of an unsigned integer: its decimal digits
RECURSIVE Decimal(_)
Decimal(n) ==
    IF n < 10 THEN <<48 + n>> ELSE Decimal(n \div 10) \o <<48 + (n % 10)>>

\* enum MouseButton
MouseButtons ==
    {"Button1Press", "Button2Press", "Button3Press", "Button4Press",
     "Button5Press", "Button6Press", "Button7Press",
     "Button1Release", "Button2Release", "Button3Release", "Button4Release",
     "Button5Release", "Button6Release", "Button7Release",
     "Button1Drag", "Button2Drag", "Button3Drag", "None"}

\* The button part of the first parameter of an SGR mouse report.
MouseButtonCode(button) ==
    CASE button \in {"Button1Press", "Button1Release"} -> 0
      [] button \in {"Button2Press", "Button2Release"} -> 1
      [] button \in {"Button3Press", "Button3Release"} -> 2
      [] button \in {"Button4Press", "Button4Release"} -> 64
      [] button \in {"Button5Press", "Button5Release"} -> 65
      [] button \in {"Button6Press", "Button6Release"} -> 66
      [] button \in {"Button7Press", "Button7Release"} -> 67
      [] button = "Button1Drag" -> 32
      [] button = "Button2Drag" -> 33
      [] button = "Button3Drag" -> 34
      [] button = "None" -> 35

\* The final byte of an SGR mouse report: 'M' or 'm'.
MouseTrailer(button) ==
    IF button \in {"Button1Press", "Button2Press", "Button3Press", "Button4Press",
                   "Button5Press", "Button1Drag", "Button2Drag", "Button3Drag",
                   "None"}
    THEN 77 ELSE 109

\* The modifier part of the first parameter of an SGR mouse report.
MouseModifierBits(modifiers) ==
    OrAll(<<IF BitAnd(modifiers, SHIFT) # NONE THEN 4 ELSE 0,
            IF BitAnd(modifiers, ALT) # NONE THEN 8 ELSE 0,
            IF BitAnd(modifiers, CONTROL) # NONE THEN 16 ELSE 0>>)

\* impl Display for MouseReport; Sgr1006 and Sgr1016 are written alike.
EncodeMouseReport(r) ==
    <<60>> \o Decimal(BitOr(MouseModifierBits(r.modifiers), MouseButtonCode(r.button)))
        \o <<59>> \o Decimal(r.x) \o <<59>> \o Decimal(r.y)
        \o <<MouseTrailer(r.button)>>

\* enum DecPrivateModeCode: the codes `code as u16` yields
DecPrivateModeCodes ==
    {1, 2, 3, 4, 5, 6, 7, 8, 12, 25, 45, 69, 80, 1000, 1001, 1002, 1003, 1004,
     1005, 1006, 1015, 1016, 1036, 1039, 1048, 1049, 47, 1047, 2004, 2027, 2031,
     1070, 2026, 7727, 8452, 9001}

\* impl Display for DecPrivateMode: Code(code) and Unspecified(code) both
\* write the number
EncodeDecPrivateMode(mode) == Decimal(mode.code)

\* The private-mode mark '?' left out.
EncodeModeWithoutMark(m) ==
    CASE m.cmd = "SetDecPrivateMode" -> EncodeDecPrivateMode(m.mode) \o <<104>>
      [] m.cmd = "ResetDecPrivateMode" -> EncodeDecPrivateMode(m.mode) \o <<108>>
      [] m.cmd = "SaveDecPrivateMode" -> EncodeDecPrivateMode(m.mode) \o <<115>>
      [] m.cmd = "RestoreDecPrivateMode" -> EncodeDecPrivateMode(m.mode) \o <<114>>
      [] m.cmd = "QueryDecPrivateMode" -> EncodeDecPrivateMode(m.mode) \o <<36, 112>>

\* impl Display for Mode, the DEC private mode commands
EncodeMode(m) ==
    CASE m.cmd = "SetDecPrivateMode" ->
            <<63>> \o EncodeDecPrivateMode(m.mode) \o <<104>>
      [] m.cmd = "ResetDecPrivateMode" ->
            <<63>> \o EncodeDecPrivateMode(m.mode) \o <<108>>
      [] m.cmd = "SaveDecPrivateMode" ->
            <<63>> \o EncodeDecPrivateMode(m.mode) \o <<115>>
      [] m.cmd = "RestoreDecPrivateMode" ->
            <<63>> \o EncodeDecPrivateMode(m.mode) \o <<114>>
      [] m.cmd = "QueryDecPrivateMode" ->
            <<63>> \o EncodeDecPrivateMode(m.mode) \o <<36, 112>>

\* bitflags KittyKeyboardFlags
DISAMBIGUATE_ESCAPE_CODES == 1
REPORT_EVENT_TYPES == 2
REPORT_ALTERNATE_KEYS == 4
REPORT_ALL_KEYS_AS_ESCAPE_CODES == 8
REPORT_ASSOCIATED_TEXT == 16

\* Every value of KittyKeyboardFlags: the OR of some of the five flags.
KittyKeyboardFlags ==
    {OrAll(<<d, e, a, k, t>>) :
        d \in {NONE, DISAMBIGUATE_ESCAPE_CODES}, e \in {NONE, REPORT_EVENT_TYPES},
        a \in {NONE, REPORT_ALTERNATE_KEYS},
        k \in {NONE, REPORT_ALL_KEYS_AS_ESCAPE_CODES},
        t \in {NONE, REPORT_ASSOCIATED_TEXT}}

\* enum SetKeyboardFlagsMode as the number it is written as
SetKeyboardFlagsModes == {1, 2, 3}

\* impl Display for Keyboard; KittyKeyboardFlags is written as its bits
EncodeKeyboard(k) ==
    CASE k.cmd = "QueryFlags" -> <<63, 117>>
      [] k.cmd = "ReportFlags" -> <<63>> \o Decimal(k.flags) \o <<117>>
      [] k.cmd = "PushFlags" -> <<62>> \o Decimal(k.flags) \o <<117>>
      [] k.cmd = "PopFlags" -> <<60>> \o Decimal(k.number) \o <<117>>
      [] k.cmd = "SetFlags" ->
            <<61>> \o Decimal(k.flags) \o <<59>> \o Decimal(k.mode) \o <<117>>

\* fn write_true_color
write_true_color(code, color) ==
    IF color.alpha = 255
    THEN Decimal(code) \o <<58, 50, 58, 58>> \o Decimal(color.red) \o <<58>>
            \o Decimal(color.green) \o <<58>> \o Decimal(color.blue)
    ELSE Decimal(code) \o <<58, 54, 58, 58>> \o Decimal(color.red) \o <<58>>
            \o Decimal(color.green) \o <<58>> \o Decimal(color.blue) \o <<58>>
            \o Decimal(color.alpha)

\* impl Display for Sgr, the arms of Sgr::Foreground: the sixteen constants
\* of ColorSpec are PaletteIndex(0) to PaletteIndex(15) and match first.
EncodeSgr(sgr) ==
    CASE sgr.color.kind = "Reset" -> <<51, 57>>
      [] sgr.color.kind = "PaletteIndex" /\ sgr.color.idx \in 0..7 ->
            Decimal(30 + sgr.color.idx)
      [] sgr.color.kind = "PaletteIndex" /\ sgr.color.idx \in 8..15 ->
            Decimal(90 + (sgr.color.idx - 8))
      [] sgr.color.kind = "PaletteIndex" /\ sgr.color.idx > 15 ->
            <<51, 56, 58, 53, 58>> \o Decimal(sgr.color.idx)
      [] sgr.color.kind = "TrueColor" -> write_true_color(38, sgr.color)

\* enum DcsRequest and impl Display for DcsRequest: the code of each request
DcsRequestCode ==
    [ActiveStatusDisplay |-> <<36, 125>>, AttributeChangeExtent |-> <<42, 120>>,
     CharacterAttribute |-> <<34, 113>>, ConformanceLevel |-> <<34, 112>>,
     ColumnsPerPage |-> <<36, 124>>, LinesPerPage |-> <<116>>,
     NumberOfLinesPerScreen |-> <<42, 124>>, StatusLineType |-> <<36, 126>>,
     LeftAndRightMargins |-> <<115>>, TopAndBottomMargins |-> <<114>>,
     GraphicRendition |-> <<109>>, SetUpLanguage |-> <<112>>,
     PrinterType |-> <<36, 115>>, RefreshRate |-> <<34, 116>>,
     DigitalPrintedDataType |-> <<40, 112>>,
     ProPrinterCharacterSet |-> <<42, 112>>, CommunicationSpeed |-> <<42, 114>>,
     CommunicationPort |-> <<42, 117>>, ScrollSpeed |-> <<32, 112>>,
     CursorStyle |-> <<32, 113>>, KeyClickVolume |-> <<32, 114>>,
     WarningBellVolume |-> <<32, 116>>, MarginBellVolume |-> <<32, 117>>,
     LockKeyStyle |-> <<32, 118>>, FlowControlType |-> <<42, 115>>,
     DisconnectDelayTime |-> <<36, 113>>, TransmitRateLimit |-> <<34, 117>>,
     PortParameter |-> <<43, 119>>]

\* const DCS and const ST of src/escape.rs
DCS == <<27, 80>>
ST == <<27, 92>>

\* impl Display for Dcs, the arm Dcs::Request
EncodeDcs(d) == DCS \o <<36, 113>> \o DcsRequestCode[d.request] \o ST

\* impl Display for Csi: ESC [, then the command; Sgr is followed by 'm'
\* enum EraseInLine and enum EraseInDisplay, each value with its discriminant
EraseInLineCode ==
    [EraseToEndOfLine |-> 0, EraseToStartOfLine |-> 1, EraseLine |-> 2]

EraseInDisplayCode ==
    [EraseToEndOfDisplay |-> 0, EraseToStartOfDisplay |-> 1, EraseDisplay |-> 2,
     EraseScrollback |-> 3]

\* The final byte of every variant of Edit
EditControl ==
    [DeleteCharacter |-> 80, DeleteLine |-> 77, EraseCharacter |-> 88,
     EraseInLine |-> 75, InsertCharacter |-> 64, InsertLine |-> 76,
     ScrollDown |-> 84, ScrollUp |-> 83, EraseInDisplay |-> 74, Repeat |-> 98]

\* write_csi of Display for Edit: the parameter is left out when it is 1
write_csi(param, control) ==
    IF param = 1 THEN <<control>> ELSE Decimal(param) \o <<control>>

\* Display for Edit; `*n as u32` of an erase value is its discriminant
EncodeEdit(c) ==
    write_csi(CASE c.edit = "EraseInLine" -> EraseInLineCode[c.value]
                [] c.edit = "EraseInDisplay" -> EraseInDisplayCode[c.value]
                [] OTHER -> c.n,
              EditControl[c.edit])

EncodeCsi(c) ==
    <<27, 91>> \o
        (CASE c.cmd = "ActivePositionReport" ->
                Decimal(c.line) \o <<59>> \o Decimal(c.col) \o <<82>>
           [] c.cmd \in {"Sgr1006", "Sgr1016"} -> EncodeMouseReport(c)
           [] c.cmd \in {"SetDecPrivateMode", "ResetDecPrivateMode",
                         "SaveDecPrivateMode", "RestoreDecPrivateMode",
                         "QueryDecPrivateMode"} -> EncodeMode(c)
           [] c.cmd \in {"QueryFlags", "ReportFlags", "PushFlags", "PopFlags",
                         "SetFlags"} -> EncodeKeyboard(c)
           [] c.cmd = "Foreground" -> EncodeSgr(c) \o <<109>>
           [] c.cmd = "Edit" -> EncodeEdit(c))

\* The positions and the modifiers the reports are built from.
ReportLines == {1, 24}
ReportCols == {1, 80}
MouseX == {80}
MouseY == {24}
MouseModifiers == {BitOr(BitOr(s, a), c) : s \in {NONE, SHIFT}, a \in {NONE, ALT},
                                            c \in {NONE, CONTROL}}

\* Csi::Cursor(Cursor::ActivePositionReport { line, col }) and Csi::Mouse(report)
ReportCommands ==
    {[cmd |-> "ActivePositionReport", line |-> l, col |-> c] :
        l \in ReportLines, c \in ReportCols}
    \cup {[cmd |-> k, x |-> x, y |-> y, button |-> b, modifiers |-> m] :
            k \in {"Sgr1006", "Sgr1016"}, x \in MouseX, y \in MouseY,
            b \in MouseButtons, m \in MouseModifiers}

\* The terminal answers with a report: the bytes of its encoding become the
\* input of the application.
WriteReport ==
    /\ sent = NoCmd
    /\ \E c \in ReportCommands : sent' = c /\ input' = EncodeCsi(c)
    /\ UNCHANGED <<tty, parserEvents, sigwinch, wakePipe, nextId>>
    /\ UNCHANGED <<buffer, panicked, fed, oneBased, written, popped>>
    /\ UNCHANGED <<sharedVars, callVars, streamVars, histVars>>

RoundTripNext == WriteReport \/ Feed

\* A report is encoded, then decoded.
RoundTripSpec == Init /\ [][RoundTripNext]_vars

(***************************************************************************)
(* OneBased: src/lib.rs (and its copy in src/escape/csi.rs)                *)
(*                                                                         *)
(* The field of a OneBased is a NonZeroU16.  An Option is a sequence: <<>> *)
(* for None, <<x>> for Some(x).                                            *)
(***************************************************************************)

\* The number of values of u16.
U16Modulus == 65536

\* How far from 0 and from u16::MAX the arguments of the calls go.
MaxNear == 30

U16Args == (0..MaxNear) \cup ((U16Modulus - 1 - MaxNear)..(U16Modulus - 1))

\* a + b and a - b on u16: the call panics where overflow checks are compiled
\* in (debug builds) and the result wraps where they are not (release builds).
U16Add(a, b) ==
    IF a + b < U16Modulus
    THEN {[panic |-> FALSE, val |-> a + b]}
    ELSE {[panic |-> TRUE, val |-> 0],
          [panic |-> FALSE, val |-> (a + b) % U16Modulus]}

U16Sub(a, b) ==
    IF a >= b
    THEN {[panic |-> FALSE, val |-> a - b]}
    ELSE {[panic |-> TRUE, val |-> 0],
          [panic |-> FALSE, val |-> (a - b + U16Modulus) % U16Modulus]}

\* OneBased::new(n)
new(n) == IF n = 0 THEN <<>> ELSE <<n>>

\* OneBased::from_zero_based(n): NonZeroU16::new_unchecked(n + 1) is handed
\* whatever n + 1 evaluates to, 0 included.
from_zero_based(n) == U16Add(n, 1)

\* OneBased::get
get(v) == v

\* OneBased::get_zero_based
get_zero_based(v) == U16Sub(get(v), 1)

\* Some code calls OneBased::new.
CallNew ==
    /\ oneBased = NoOneBased /\ ~panicked
    /\ \E n \in U16Args :
          oneBased' = [op |-> "new", arg |-> n, val |-> new(n), zero |-> <<>>]
    /\ UNCHANGED <<tty, parserEvents, sigwinch, wakePipe, nextId>>
    /\ UNCHANGED <<buffer, input, panicked, fed, sent, written, popped>>
    /\ UNCHANGED <<sharedVars, callVars, streamVars, histVars>>

\* Some code calls OneBased::from_zero_based.
CallFromZeroBased ==
    /\ oneBased = NoOneBased /\ ~panicked
    /\ \E n \in U16Args : \E r \in from_zero_based(n) :
          /\ panicked' = r.panic
          /\ oneBased' = [op |-> "from_zero_based", arg |-> n,
                          val |-> IF r.panic THEN <<>> ELSE <<r.val>>,
                          zero |-> <<>>]
    /\ UNCHANGED <<tty, parserEvents, sigwinch, wakePipe, nextId>>
    /\ UNCHANGED <<buffer, input, fed, sent, written, popped>>
    /\ UNCHANGED <<sharedVars, callVars, streamVars, histVars>>

\* get_zero_based is called on the value built.
CallGetZeroBased ==
    /\ oneBased.val # <<>> /\ oneBased.zero = <<>> /\ ~panicked
    /\ \E r \in get_zero_based(oneBased.val[1]) :
          /\ panicked' = r.panic
          /\ oneBased' = [oneBased EXCEPT
                            !.zero = IF r.panic THEN <<>> ELSE <<r.val>>]
    /\ UNCHANGED <<tty, parserEvents, sigwinch, wakePipe, nextId>>
    /\ UNCHANGED <<buffer, input, fed, sent, written, popped>>
    /\ UNCHANGED <<sharedVars, callVars, streamVars, histVars>>

OneBasedNext == CallNew \/ CallFromZeroBased \/ CallGetZeroBased

OneBasedSpec == Init /\ [][OneBasedNext]_vars

(***************************************************************************)
(* The encoder of the commands an application writes: src/escape/csi.rs    *)
(* and src/escape/dcs.rs                                                   *)
(***************************************************************************)

\* DecPrivateMode::Code of every code, and DecPrivateMode::Unspecified
DecPrivateModes ==
    {[kind |-> "Code", code |-> c] : c \in DecPrivateModeCodes}
    \cup {[kind |-> "Unspecified", code |-> c] : c \in {0, 9999, U16Modulus - 1}}

\* ColorSpec: Reset, every PaletteIndex, some TrueColor values
ColorSpecs ==
    {[kind |-> "Reset"]}
    \cup {[kind |-> "PaletteIndex", idx |-> i] : i \in 0..255}
    \cup {[kind |-> "TrueColor", red |-> r, green |-> 128, blue |-> 0, alpha |-> a] :
            r \in {0, 255}, a \in {0, 255}}

\* Csi::Edit: every erase value, and the other variants with some counts
EditCommands ==
    {[cmd |-> "Edit", edit |-> "EraseInLine", value |-> v] :
        v \in DOMAIN EraseInLineCode}
    \cup {[cmd |-> "Edit", edit |-> "EraseInDisplay", value |-> v] :
            v \in DOMAIN EraseInDisplayCode}
    \cup {[cmd |-> "Edit", edit |-> e, n |-> n] :
            e \in DOMAIN EditControl \ {"EraseInLine", "EraseInDisplay"},
            n \in {0, 1, 2, 10}}

\* The commands written: Csi::Mode, Csi::Keyboard, Csi::Sgr, Csi::Edit and
\* Dcs::Request
Commands ==
    {[cmd |-> k, mode |-> m] :
        k \in {"SetDecPrivateMode", "ResetDecPrivateMode", "SaveDecPrivateMode",
               "RestoreDecPrivateMode", "QueryDecPrivateMode"},
        m \in DecPrivateModes}
    \cup {[cmd |-> "QueryFlags"]}
    \cup {[cmd |-> k, flags |-> f] :
            k \in {"ReportFlags", "PushFlags"}, f \in KittyKeyboardFlags}
    \cup {[cmd |-> "PopFlags", number |-> n] : n \in {0, 1, 255}}
    \cup {[cmd |-> "SetFlags", flags |-> f, mode |-> m] :
            f \in KittyKeyboardFlags, m \in SetKeyboardFlagsModes}
    \cup {[cmd |-> "Foreground", color |-> c] : c \in ColorSpecs}
    \cup {[cmd |-> "DcsRequest", request |-> r] : r \in DOMAIN DcsRequestCode}
    \cup EditCommands

\* to_string() of a command: Display of Csi or of Dcs
Encode(c) == IF c.cmd = "DcsRequest" THEN EncodeDcs(c) ELSE EncodeCsi(c)

\* The application writes one command to the terminal.
WriteCommand ==
    /\ sent = NoCmd
    /\ \E c \in Commands : sent' = c /\ written' = Encode(c)
    /\ UNCHANGED <<tty, parserEvents, sigwinch, wakePipe, nextId>>
    /\ UNCHANGED <<buffer, input, panicked, fed, oneBased, popped>>
    /\ UNCHANGED <<sharedVars, callVars, streamVars, histVars>>

EncodeNext == WriteCommand

EncodeSpec == Init /\ [][EncodeNext]_vars


(***************************************************************************)
(* The byte source feeding the decoder: src/event/source/unix.rs           *)
(***************************************************************************)

\* let mut buffer = [0u8; 64]
ReadBufferSize == 64

Min(a, b) == IF a < b THEN a ELSE b

\* n times the byte b
Repeat(b, n) == [i \in 1..n |-> b]

\* The inputs of the terminal: some letters 'a', then one ESC, then nothing.
\* With its ESC an input fills a part of the read buffer, the buffer exactly,
\* or more than the buffer.
EscInputs ==
    {Repeat(97, n) \o <<27>> : n \in {0, 1, ReadBufferSize - 1, ReadBufferSize}}

\* What read(2) can return when avail bytes of the input are still to come:
\* the one byte that has arrived, all of them, or a burst that fills the
\* buffer or leaves one byte of it free.
ReadCounts(avail) ==
    {c \in {1, avail, ReadBufferSize - 1, ReadBufferSize} :
        c <= Min(avail, ReadBufferSize)}

\* The end of a turn of try_read that has read bytes: r is what process_bytes
\* made of buf, the decoder's buffer with the bytes appended.  The first event
\* the decoder pushed, if any, is popped and returned.
ReadDone(bytes, maybe_more, buf, r) ==
    /\ panicked' = r.panic
    /\ buffer' = IF r.panic THEN buf ELSE advance(buf, r.start)
    /\ fed' = [bytes |-> bytes, more |-> maybe_more, before |-> buffer, had |-> 0]
    /\ IF r.pushed # <<>> /\ ~r.panic
       THEN /\ popped' = Append(popped, Head(r.pushed))
            /\ parserEvents' = Tail(r.pushed)
       ELSE /\ popped' = popped
            /\ parserEvents' = r.pushed

\* One turn of the loop of UnixEventSource::try_read that finds something: an
\* event in the decoder's queue, which it returns; or bytes to read, as many as
\* have arrived and fit the buffer, which it feeds to the decoder with
\* maybe_more = (read_count == buffer.len()), returning the first event if
\* there is one.  When the queue is empty and nothing has arrived, try_read
\* waits in poll(2) or returns Ok(None) on its timeout: nothing changes.
TryRead ==
    /\ ~panicked
    /\ \/ /\ parserEvents # <<>>
          /\ popped' = Append(popped, Head(parserEvents))
          /\ parserEvents' = Tail(parserEvents)
          /\ UNCHANGED <<buffer, input, panicked, fed>>
       \/ /\ parserEvents = <<>> /\ input # <<>>
          /\ \E read_count \in ReadCounts(Len(input)) :
                LET bytes == SubSeq(input, 1, read_count)
                    maybe_more == (read_count = ReadBufferSize)
                    buf == buffer \o bytes
                IN  /\ input' = SubSeq(input, read_count + 1, Len(input))
                    /\ ReadDone(bytes, maybe_more, buf,
                                process_bytes(buf, maybe_more))
    /\ UNCHANGED <<tty, sigwinch, wakePipe, nextId, sent, oneBased, written>>
    /\ UNCHANGED <<sharedVars, callVars, streamVars, histVars>>

EscNext == TryRead

\* The byte source alone, called again and again, on an input that ends with
\* a lone ESC.
EscSpec == ParseInitWith(EscInputs) /\ [][EscNext]_vars

\* The application goes on calling and the calls are scheduled.
FairEscSpec == EscSpec /\ WF_vars(TryRead)

(***************************************************************************)
(* Keys in the Kitty keyboard protocol                                     *)
(***************************************************************************)

\* The bitfields of the modifiers field of the protocol: every u8.
ModifierBitfields == 0..255

\* The event types of the protocol; 0 stands for a sequence without the
\* ":event-type" part.
KittyKinds == {0, 1, 2, 3}

\* The keys pressed: 'a' and Enter.
KittyCodepoints == {97, 13}

\* What the terminal sends for a key: ESC [ codepoint ; 1+b : k u, and
\* ESC [ codepoint ; 1+b u when it reports no event type.
KittyKey(codepoint, b, k) ==
    <<27, 91>> \o Decimal(codepoint) \o <<59>> \o Decimal(1 + b)
        \o (IF k = 0 THEN <<>> ELSE <<58>> \o Decimal(k)) \o <<117>>

KittyInputs ==
    {KittyKey(c, b, k) : c \in KittyCodepoints, b \in ModifierBitfields,
                         k \in KittyKinds}

\* Everything the terminal sent comes in one read and the decoder is fed with
\* it; nothing more follows.
FeedAll ==
    /\ input # <<>>
    /\ Parse(input, FALSE)
    /\ input' = <<>>
    /\ UNCHANGED <<tty, sigwinch, wakePipe, nextId, sent, oneBased, written, popped>>
    /\ UNCHANGED <<sharedVars, callVars, streamVars, histVars>>

KittyNext == FeedAll

\* The decoder alone, fed with one key of the Kitty protocol.
KittySpec == ParseInitWith(KittyInputs) /\ [][KittyNext]_vars

(***************************************************************************)
(* The console records of Windows: Parser::decode_input_records            *)
(*                                                                         *)
(* In this part `input` holds the INPUT_RECORDs the console has still to   *)
(* deliver and fed.bytes the batch of the last call.                       *)
(***************************************************************************)

\* An INPUT_RECORD: a key record with bKeyDown and uChar.AsciiChar, a window
\* buffer size record with dwSize, or a record of another type.
KeyRecord(down, ch) ==
    [EventType |-> "KEY_EVENT", bKeyDown |-> down, AsciiChar |-> ch, X |-> 0, Y |-> 0]
SizeRecord(x, y) ==
    [EventType |-> "WINDOW_BUFFER_SIZE_EVENT", bKeyDown |-> 0, AsciiChar |-> 0,
     X |-> x, Y |-> y]
FocusRecord ==
    [EventType |-> "FOCUS_EVENT", bKeyDown |-> 0, AsciiChar |-> 0, X |-> 0, Y |-> 0]

\* Event::WindowResized of a window buffer size record: (dwSize + 1) as u16
WindowResized(record) ==
    [type |-> "WindowResized", rows |-> (record.Y + 1) % U16Modulus,
     cols |-> (record.X + 1) % U16Modulus]

\* The loop of decode_input_records from the record i on: the buffer and the
\* events it leaves, and whether a key-up record made the function return.
RECURSIVE DecodeRecordsFrom(_, _, _, _)
DecodeRecordsFrom(records, i, buf, evs) ==
    IF i > Len(records)
    THEN [buffer |-> buf, events |-> evs, returned |-> FALSE]
    ELSE LET record == records[i]
         IN  CASE record.EventType = "KEY_EVENT" ->
                    IF record.bKeyDown = 0
                    THEN [buffer |-> buf, events |-> evs, returned |-> TRUE]
                    ELSE DecodeRecordsFrom(records, i + 1,
                                           Append(buf, record.AsciiChar), evs)
               [] record.EventType = "WINDOW_BUFFER_SIZE_EVENT" ->
                    DecodeRecordsFrom(records, i + 1, buf,
                                      Append(evs, WindowResized(record)))
               [] OTHER -> DecodeRecordsFrom(records, i + 1, buf, evs)

\* Parser::decode_input_records(records): the loop, then process_bytes(false)
\* when the loop has run to its end.
decode_input_records(records) ==
    LET d == DecodeRecordsFrom(records, 1, buffer, parserEvents)
        r == process_bytes(d.buffer, FALSE)
    IN  /\ ~panicked
        /\ IF d.returned
           THEN /\ parserEvents' = d.events
                /\ buffer' = d.buffer
                /\ panicked' = FALSE
           ELSE /\ parserEvents' = d.events \o r.pushed
                /\ panicked' = r.panic
                /\ buffer' = IF r.panic THEN d.buffer ELSE advance(d.buffer, r.start)
        /\ fed' = [bytes |-> records, more |-> FALSE, before |-> buffer,
                   had |-> Len(parserEvents)]

\* WindowsEventSource::try_read reads the records that are pending, however
\* many have arrived, and hands them to the decoder.
ReadConsoleInput ==
    /\ input # <<>>
    /\ \E pending \in 1..Len(input) :
          /\ decode_input_records(SubSeq(input, 1, pending))
          /\ input' = SubSeq(input, pending + 1, Len(input))
    /\ UNCHANGED <<tty, sigwinch, wakePipe, nextId, sent, oneBased, written, popped>>
    /\ UNCHANGED <<sharedVars, callVars, streamVars, histVars>>

\* The records of the model: the key 'a' pressed and released, the window
\* resized to 80 columns and 24 rows, the window focused.
ConsoleRecords ==
    {KeyRecord(1, 97), KeyRecord(0, 97), SizeRecord(79, 23), FocusRecord}

\* The most records the console delivers.
MaxRecords == 4

RecordInputs == UNION {[1..n -> ConsoleRecords] : n \in 1..MaxRecords}

RecordsNext == ReadConsoleInput

\* The decoder alone, fed with console records in every batching.
RecordsSpec == ParseInitWith(RecordInputs) /\ [][RecordsNext]_vars

(***************************************************************************)
(* One byte string fed in two calls                                        *)
(***************************************************************************)

\* The terminal is going to send the byte string s; nothing is fed yet.
ChunkInit ==
    /\ ReaderInit
    /\ buffer = <<>> /\ panicked = FALSE
    /\ input \in ShortInputs \cup LongInputs
    /\ sent = [cmd |-> "bytes", bytes |-> input, fed |-> 0]
    /\ fed = NoFeed /\ oneBased = NoOneBased
    /\ written = <<>> /\ popped = <<>>

\* The first call of Parser::parse: a prefix of the string, any, the empty one
\* and the whole string included, with maybe_more = true.
FeedPrefix ==
    /\ sent.fed = 0
    /\ \E k \in 0..Len(input) :
          /\ Parse(SubSeq(input, 1, k), TRUE)
          /\ input' = SubSeq(input, k + 1, Len(input))
    /\ sent' = [sent EXCEPT !.fed = 1]
    /\ UNCHANGED <<tty, sigwinch, wakePipe, nextId, oneBased, written, popped>>
    /\ UNCHANGED <<sharedVars, callVars, streamVars, histVars>>

\* The second call: the rest of the string, with either flag.
FeedRest ==
    /\ sent.fed = 1
    /\ \E maybe_more \in BOOLEAN : Parse(input, maybe_more)
    /\ input' = <<>>
    /\ sent' = [sent EXCEPT !.fed = 2]
    /\ UNCHANGED <<tty, sigwinch, wakePipe, nextId, oneBased, written, popped>>
    /\ UNCHANGED <<sharedVars, callVars, streamVars, histVars>>

ChunkNext == FeedPrefix \/ FeedRest

\* The decoder alone, fed with one string cut in two at any place.
ChunkSpec == ChunkInit /\ [][ChunkNext]_vars

(***************************************************************************)
(* Properties of the decoder                                               *)
(***************************************************************************)

\* The events the last call of Parser::parse appended.
Appended == SubSeq(parserEvents, fed.had + 1, Len(parserEvents))

EscapePress == KeyEventNew(<<"Escape">>, NONE)

\* C15: the single byte ESC fed to a decoder with an empty buffer yields no
\* event and stays in the buffer when more bytes may follow, and yields exactly
\* one Escape key press and leaves the buffer empty when no more may follow.
C15_LoneEscIsResolvedByFlag ==
    (fed.bytes = <<27>> /\ fed.before = <<>>)
        => IF fed.more
           THEN Appended = <<>> /\ buffer = <<27>>
           ELSE Appended = <<EscapePress>> /\ buffer = <<>>

C15_Witness ==
    /\ fed.bytes = <<27>> /\ fed.before = <<>> /\ ~fed.more
    /\ Appended = <<EscapePress>> /\ input # <<>>

\* C16: of a three-byte character, the first byte and the first two bytes
\* yield no event and stay in the buffer, whatever the flag; once the third
\* byte is fed there is exactly one event, a key event Char of that character,
\* and the buffer is empty.
C16_ThreeByteCharWaitsForItsLastByte ==
    sent.cmd = "char" =>
        LET enc == Utf8Encode3(sent.ch)
            consumed == Len(enc) - Len(input)
        IN  IF consumed < 3
            THEN parserEvents = <<>> /\ buffer = SubSeq(enc, 1, consumed)
            ELSE /\ Len(parserEvents) = 1
                 /\ parserEvents[1].type = "Key"
                 /\ parserEvents[1].code = <<"Char", sent.ch>>
                 /\ buffer = <<>>

C16_Witness ==
    /\ sent = [cmd |-> "char", ch |-> 8364]
    /\ fed.bytes = <<172>> /\ fed.before = <<226, 130>>
    /\ parserEvents = <<KeyEventNew(<<"Char", 8364>>, NONE)>>

\* C17: no call of Parser::parse panics, whatever bytes it is fed and however
\* they are cut into chunks; a sequence the decoder does not recognize, ESC [ M
\* and ESC [ < among them, is dropped and the call returns.
C17_DecoderNeverPanics == ~panicked

\* The event that carries a CSI command: Event::Csi(csi)
CsiEvent(csi) == [type |-> "Csi", csi |-> csi]

\* C18: once the whole encoding of an active-position report has been fed, the
\* last chunk with maybe_more = false, the decoder holds exactly one event,
\* the report with its line and its column (ESC [ 2 4 ; 8 0 R gives line 24,
\* column 80).
C18_PositionReportRoundTrips ==
    (/\ sent.cmd = "ActivePositionReport"
     /\ input = <<>> /\ fed # NoFeed /\ ~fed.more)
        => parserEvents = <<CsiEvent(sent)>>

\* C19: the SGR report of a drag with button 2 while Shift and Control are held
\* has 33 + 4 + 16 as its first parameter, and the decoder turns its bytes
\* into one event, that report.
C19_MouseDragRoundTrips ==
    (/\ sent.cmd = "Sgr1006"
     /\ sent.button = "Button2Drag" /\ sent.modifiers = BitOr(SHIFT, CONTROL))
        => /\ fed = NoFeed
                => Split(SubSeq(input, 4, Len(input) - 1), 59)[1] = Decimal(33 + 4 + 16)
           /\ ~panicked
           /\ (input = <<>> /\ ~fed.more) => parserEvents = <<CsiEvent(sent)>>

\* C20: no OneBased holds 0 and new(0) is None; from_zero_based(n) returns,
\* for every n of u16, a OneBased whose get() is n + 1, and get_zero_based of
\* it returns n.
C20_OneBasedIsLossless ==
    /\ oneBased.val # <<0>>
    /\ (oneBased.op = "new" /\ oneBased.arg = 0) => oneBased.val = <<>>
    /\ oneBased.op = "from_zero_based" =>
          /\ ~panicked
          /\ oneBased.val = <<oneBased.arg + 1>>
          /\ oneBased.zero \in {<<>>, <<oneBased.arg>>}


\* The sum of a set of flag bits, which is their OR as no two share a bit.
RECURSIVE SumOf(_)
SumOf(S) == IF S = {} THEN 0 ELSE LET x == CHOOSE x \in S : TRUE IN x + SumOf(S \ {x})

\* C21: every command is framed exactly. A Csi command is ESC [, its body and
\* its final byte: setting the DEC private mode c is ESC [ ? c h and resetting
\* it ESC [ ? c l, PushFlags(f) is ESC [ >, the decimal value of the OR of the
\* flag bits, and u, a foreground colour is ESC [, its numeric code and m. A
\* Dcs request is ESC P $ q, the request code, ESC \.
C21_CommandsAreFramedExactly ==
    /\ sent.cmd = "SetDecPrivateMode"
        => written = <<27, 91, 63>> \o Decimal(sent.mode.code) \o <<104>>
    /\ sent.cmd = "ResetDecPrivateMode"
        => written = <<27, 91, 63>> \o Decimal(sent.mode.code) \o <<108>>
    /\ sent = [cmd |-> "SetDecPrivateMode", mode |-> [kind |-> "Code", code |-> 1049]]
        => written = <<27, 91, 63, 49, 48, 52, 57, 104>>
    /\ sent = [cmd |-> "ResetDecPrivateMode", mode |-> [kind |-> "Code", code |-> 1049]]
        => written = <<27, 91, 63, 49, 48, 52, 57, 108>>
    /\ \A S \in SUBSET {1, 2, 4, 8, 16} :
          sent = [cmd |-> "PushFlags", flags |-> SumOf(S)]
            => written = <<27, 91, 62>> \o Decimal(SumOf(S)) \o <<117>>
    /\ sent = [cmd |-> "PushFlags",
               flags |-> BitOr(DISAMBIGUATE_ESCAPE_CODES, REPORT_ALTERNATE_KEYS)]
        => written = <<27, 91, 62, 53, 117>>
    /\ sent.cmd = "Foreground"
        => /\ Len(written) >= 4
           /\ SubSeq(written, 1, 2) = <<27, 91>>
           /\ written[Len(written)] = 109
           /\ \A i \in 3..(Len(written) - 1) : written[i] \in (48..57) \cup {58}
    /\ \A i \in 0..7 :
          sent = [cmd |-> "Foreground", color |-> [kind |-> "PaletteIndex", idx |-> i]]
            => written = <<27, 91, 51, 48 + i, 109>>
    /\ \A i \in 8..15 :
          sent = [cmd |-> "Foreground", color |-> [kind |-> "PaletteIndex", idx |-> i]]
            => written = <<27, 91, 57, 48 + (i - 8), 109>>
    /\ sent = [cmd |-> "Foreground", color |-> [kind |-> "Reset"]]
        => written = <<27, 91, 51, 57, 109>>
    /\ sent.cmd = "DcsRequest"
        => written = <<27, 80, 36, 113>> \o DcsRequestCode[sent.request] \o <<27, 92>>
    /\ sent = [cmd |-> "DcsRequest", request |-> "GraphicRendition"]
        => written = <<27, 80, 36, 113, 109, 27, 92>>
    /\ sent = [cmd |-> "DcsRequest", request |-> "CursorStyle"]
        => written = <<27, 80, 36, 113, 32, 113, 27, 92>>

\* The alternate screen has been entered: ESC [ ? 1049 h is on the wire.
C21_Witness ==
    /\ sent = [cmd |-> "SetDecPrivateMode", mode |-> [kind |-> "Code", code |-> 1049]]
    /\ written = <<27, 91, 63, 49, 48, 52, 57, 104>>

\* Thread t is inside Shared::poll or Shared::read: in try_read or at the FIFO.
InShared(t) == pc[t] \in {"poll_src", "read_scan"}

\* C22: at most one thread at a time, consumers on clones and the helper
\* thread of the stream alike, is inside try_read or changes the shared FIFO:
\* the thread that is there owns the lock, and every step that draws from the
\* source or changes the FIFO or the skip list is a step of the lock's owner.
C22_OneThreadDrawsAtATime ==
    /\ [](\A t \in Threads :
            InShared(t) => /\ lock = t
                           /\ \A u \in Threads \ {t} : ~InShared(u))
    /\ [][(events' # events \/ skipped_events' # skipped_events \/ nextId' # nextId)
            => lock # NoThread /\ InShared(lock)]_vars

\* The helper thread is inside try_read while a consumer and poll_next wait
\* for the lock.
C22_Witness ==
    /\ pc[Helper] = "poll_src" /\ lock = Helper
    /\ pc["t1"] = "read_lock"
    /\ pc[StreamTask] = "poll_lock"

\* Thread t is inside try_read without a timeout and the source has nothing
\* to return: the call is blocked in poll(2).
BlockedInTryRead(t) == pc[t] = "poll_src" /\ timeout[t] = "none" /\ ~SourceReady

\* C23: the lock is released while a call is blocked on the byte source: when
\* a thread is inside poll(None, ..) or read, in try_read with nothing for the
\* source to return, it does not own the lock, so that another thread can take
\* the lock, for example to poll the FIFO with a zero timeout.
C23_LockIsFreeWhileBlocked ==
    \A t \in Threads :
        BlockedInTryRead(t) => /\ lock # t
                               /\ \A u \in Threads \ {t} : ~WaitsOnLock(u)


\* The tasks dispatched to the helper thread whose flag is not yet cleared:
\* those in the channel and the one the helper thread is working on.
OutstandingTasks ==
    Len(channel)
        + (IF pc[Helper] \in {"poll_lock", "poll_src", "h_true", "h_other",
                               "h_err", "h_clear"} THEN 1 ELSE 0)

\* C24: at most one helper wait is outstanding.  At any time at most one
\* dispatched task has not yet cleared the flag, and the flag is set while
\* there is one; poll_next goes on to send a task only by changing the flag
\* from false to true, a task enters the channel only from there, and a
\* poll_next that finds the flag set returns without dispatching anything.
C24_OneHelperWaitOutstanding ==
    /\ [](/\ OutstandingTasks
                + (IF pc[StreamTask] = "pn_send" THEN 1 ELSE 0) <= 1
          /\ (OutstandingTasks = 1 \/ pc[StreamTask] = "pn_send") => executed)
    /\ [][/\ (pc[StreamTask] # "pn_send" /\ pc'[StreamTask] = "pn_send")
                => pc[StreamTask] = "pn_false" /\ ~executed /\ executed'
          /\ Len(channel') > Len(channel) => pc[StreamTask] = "pn_send"
          /\ (pc[StreamTask] = "pn_false" /\ executed
                /\ pc'[StreamTask] # pc[StreamTask])
                => /\ pc'[StreamTask] = "idle"
                   /\ UNCHANGED <<channel, executed>>]_vars

\* The helper thread waits in its poll for the one task dispatched, and a
\* later poll_next has found no match and the flag set.
C24_Witness ==
    /\ pc[Helper] = "poll_src" /\ channel = <<>>
    /\ executed /\ pc[StreamTask] = "pn_false"

\* BridgeSpec where the helper thread is scheduled: outside its poll it takes
\* its next step.  Nothing is asked of the terminal or of the async task.
FairBridgeSpec == BridgeSpec /\ WF_vars(HelperProgress)

\* The helper thread has left the loop around its poll, or is about to: the
\* poll reported a match, or it did not and the shutdown flag is set.
HelperTaskEnding ==
    \/ pc[Helper] = "h_true"
    \/ pc[Helper] \in {"h_other", "h_err"} /\ shutdown

\* C25: a task of the helper thread ends by clearing the flag and then
\* invoking the task's waker, once, and only after its blocking poll reported
\* a match or the shutdown flag was seen set.  The helper leaves its loop only
\* then; from there it clears the flag, then wakes, then takes the next task,
\* and it wakes nowhere else; once the loop is left the wake follows.
C25_TaskEndsWithClearThenOneWake ==
    /\ [][/\ (pc[Helper] # "h_clear" /\ pc'[Helper] = "h_clear") => HelperTaskEnding
          /\ (pc[Helper] = "h_clear" /\ pc'[Helper] # "h_clear")
                => pc'[Helper] = "h_wake" /\ ~executed'
          /\ (pc[Helper] # "h_wake" /\ pc'[Helper] = "h_wake") => pc[Helper] = "h_clear"
          /\ (pc[Helper] = "h_wake" /\ pc'[Helper] # "h_wake") => pc'[Helper] = "h_recv"
          /\ (pc[Helper] # "h_recv" /\ pc'[Helper] = "h_recv") => pc[Helper] = "h_wake"]_vars
    /\ HelperTaskEnding ~> (pc[Helper] = "h_wake")
    /\ (pc[Helper] = "h_wake") ~> (pc[Helper] = "h_recv")

\* A task has ended on a match: the flag is cleared, the waker is about to be
\* invoked, and an event was drawn from the source for it.
C25_Witness ==
    /\ pc[Helper] = "h_wake" /\ ~executed /\ ~shutdown
    /\ last.by = Helper /\ last.val = "true"

\* C26: the scratch list does not outlive the call that filled it: when a poll
\* or read call has returned, by a match, a timeout, a wake or an error, and
\* no other call has begun, Shared::skipped_events is empty and every event
\* drawn and not yet returned by a read is in the shared FIFO.
C26_ScratchListIsEmptyAfterReturn ==
    last.op # "none"
        => /\ skipped_events = <<>>
           /\ \A id \in 1..(nextId - 1) : delivered[id] = 0 => id \in Ids(events)

\* C27: across poll calls, with no read in between, the shared FIFO holds its
\* events in the order in which they were drawn from the source, also after a
\* poll that returned true for an event it had just drawn.
C27_PollsKeepArrivalOrder ==
    \A i, j \in DOMAIN events : i < j => events[i].id < events[j].id

\* The bytes buf[start+1..stop] fall into consecutive units, each of which the
\* decoder resolves, as the next of the events evs or as malformed.
RECURSIVE Resolved(_, _, _, _, _)
Resolved(buf, more, start, stop, evs) ==
    IF start = stop THEN evs = <<>>
    ELSE \E end \in (start + 1)..stop :
            LET r == parse_event(SubSeq(buf, start + 1, end), more \/ end < Len(buf))
            IN  \/ /\ r.res = "event" /\ evs # <<>> /\ r.ev = Head(evs)
                   /\ Resolved(buf, more, end, stop, Tail(evs))
                \/ /\ r.res = "err"
                   /\ Resolved(buf, more, end, stop, evs)

\* What holds of the buffer after the last feed: it is the end of the bytes the
\* decoder had (its buffer, then the bytes fed), the bytes before it are the
\* units of the events appended and of the malformed sequences dropped, and
\* the bytes kept are a partial or ambiguous sequence.
BufferIsUnresolvedSuffix ==
    LET whole == fed.before \o fed.bytes
        consumed == Len(whole) - Len(buffer)
    IN  /\ consumed >= 0
        /\ buffer = SubSeq(whole, consumed + 1, Len(whole))
        /\ Resolved(whole, fed.more, 0, consumed, Appended)
        /\ buffer # <<>> => parse_event(buffer, fed.more).res = "none"

\* C28: after every feed the buffer is the suffix of the previous buffer
\* followed by the bytes fed that starts right after the last unit resolved
\* in that feed; every byte before it was consumed by exactly one appended
\* event or dropped as malformed, and the partial or ambiguous bytes at the
\* end are kept as they came.
C28_BufferKeepsWhatIsUnresolved == fed # NoFeed => BufferIsUnresolvedSuffix

\* C29: malformed input resynchronizes at the next byte.  When the lead byte
\* of a two-byte character (0xC3) is followed by a byte that is no
\* continuation byte, an ASCII character such as 'a', only the lead byte is
\* dropped: the byte after it is decoded as its own event, the key it is
\* alone, and nothing stays in the buffer.
C29_MalformedLeadByteAloneIsDropped ==
    \A b \in {91, 79, 77, 60, 65, 49, 59, 126, 97} :
        (fed.before \o fed.bytes = <<195, b>>)
            => /\ Appended = <<parse_event(<<b>>, FALSE).ev>>
               /\ buffer = <<>>

\* C30: a lone ESC at the end of the input is resolved without further input.
\* No Escape event is made of it in a feed after which more bytes may follow;
\* and once the terminal has nothing more to send, the Escape key press is
\* delivered, whatever the size of the read that brought the ESC, the read
\* that exactly fills the 64-byte buffer included.
C30_LoneEscIsDeliveredWithoutInput ==
    /\ []((fed # NoFeed /\ fed.more /\ fed.bytes[Len(fed.bytes)] = 27)
            => \A i \in DOMAIN parserEvents : parserEvents[i] # EscapePress)
    /\ [](\A i \in DOMAIN popped : popped[i] = EscapePress => input = <<>>)
    /\ <>(popped # <<>> /\ popped[Len(popped)] = EscapePress)

\* The event ev with the ALT modifier added when it is a key event.
AltOf(ev) ==
    IF ev.type = "Key" THEN [ev EXCEPT !.modifiers = BitOr(@, ALT)] ELSE ev

\* C31: ESC followed by a byte other than 'O' and '[' decodes as Alt plus the
\* remainder.  When the decoder, its buffer empty, has been given ESC and one
\* more byte, it has appended exactly what that byte yields when parsed alone,
\* with ALT added to a key event; ESC followed by ESC yields an Escape key
\* that carries ALT.
C31_EscPrefixIsAltPlusRemainder ==
    \A b \in ParseBytes \ {79, 91} :
        (fed.before \o fed.bytes = <<27, b>>)
            => LET r == parse_event(<<b>>, fed.more)
               IN  Appended = IF r.res = "event" THEN <<AltOf(r.ev)>> ELSE <<>>

\* C32: the modifiers and the kind of a Kitty key.  For every sequence
\* ESC [ codepoint ; m : k u with m = 1 + b, b a bitfield in 0..255, the one
\* event decoded is a key event whose modifiers hold shift, alt, control,
\* super, hyper and meta exactly for the bits 1, 2, 4, 8, 16 and 32 of b,
\* whose state holds caps lock and num lock exactly for the bits 64 and 128,
\* and whose kind is Press for k = 1 or no k, Repeat for 2, Release for 3.
C32_KittyModifiersAndKind ==
    \A c \in KittyCodepoints, b \in ModifierBitfields, k \in KittyKinds :
        fed.bytes = KittyKey(c, b, k)
            => /\ Len(Appended) = 1
               /\ LET ev == Appended[1]
                  IN  /\ ev.type = "Key"
                      /\ Contains(ev.modifiers, SHIFT) <=> HasBit(b, 1)
                      /\ Contains(ev.modifiers, ALT) <=> HasBit(b, 2)
                      /\ Contains(ev.modifiers, CONTROL) <=> HasBit(b, 4)
                      /\ Contains(ev.modifiers, SUPER) <=> HasBit(b, 8)
                      /\ Contains(ev.modifiers, HYPER) <=> HasBit(b, 16)
                      /\ Contains(ev.modifiers, META) <=> HasBit(b, 32)
                      /\ Contains(ev.state, CAPS_LOCK) <=> HasBit(b, 64)
                      /\ Contains(ev.state, NUM_LOCK) <=> HasBit(b, 128)
                      /\ ev.kind = CASE k = 2 -> "Repeat"
                                     [] k = 3 -> "Release"
                                     [] OTHER -> "Press"

\* The bitfields of the protocol that hold modifiers only: bits 1 to 32.
ModifierSubsets == 0..63

\* C33: the six modifiers are independent flags and Modifiers values are
\* compared by equality.  A key decoded with one set of modifiers held has
\* other modifiers than the same key decoded with any different set held: the
\* key with hyper alone differs from the key with meta alone.
C33_ModifierSetsAreDistinct ==
    \A c \in KittyCodepoints, b \in ModifierSubsets, k \in KittyKinds :
        (fed.bytes = KittyKey(c, b, k) /\ Len(Appended) = 1)
            => \A other \in ModifierSubsets \ {b} :
                  LET r == parse_event(KittyKey(c, other, k), FALSE)
                  IN  r.res = "event" => r.ev # Appended[1]

\* The wakers that the helper thread is still going to invoke: those of the
\* tasks in the channel and that of the task it holds.
RegisteredWakers ==
    {channel[i] : i \in DOMAIN channel}
        \cup (IF pc[Helper] \in {"h_recv", "h_exit"} THEN {} ELSE {taskWaker})

\* poll_next returns Poll::Pending in this step.
ReturnsPending ==
    pc[StreamTask] \in {"pn_false", "pn_send"} /\ pc'[StreamTask] = "idle"

\* C34: a poll_next that returns Pending has a wake-up of its own waker
\* coming.  When the call returns Pending, the waker it was passed is the
\* waker of a task the helper thread is going to invoke, also when the stream
\* was polled before with another waker and that helper wait is still
\* outstanding.
C34_PendingRegistersItsWaker ==
    [][ReturnsPending => cx \in RegisteredWakers']_vars

\* C35: poll(P, 0) reports the matching events the reader holds.  When a
\* poll with a zero timeout has the lock and the reader holds an event that
\* matches its filter, in the FIFO or in the list of skipped events where an
\* earlier call left it, the call returns Ok(true), unless its own try_read
\* fails or is interrupted by a wake.
C35_PollZeroSeesHeldEvents ==
    [][\A t \in Threads :
          (/\ pc[t] = "poll_src" /\ op[t] = "poll" /\ timeout[t] = "zero"
           /\ pc'[t] # "poll_src"
           /\ AnyMatch(events \o skipped_events, filter[t])
           /\ last'.why \in {"timeout", "drawn"})
              => last'.val = "true"]_vars

\* The byte source has no event to give: nothing decoded, nothing on the
\* terminal, no resize.
NoInput == parserEvents = <<>> /\ tty = <<>> /\ ~sigwinch

\* C36: a wake is retained and wakes coalesce.  The pending wakes leave the
\* wake pipe only by interrupting a poll, which then returns Ok(false) and has
\* taken all of them; and the poll that reaches the byte source while wakes
\* are pending and there is no input returns at once, whatever its timeout,
\* with Ok(false) by that interruption (or with the error of a failing system
\* call), leaving no wake behind for a second interruption.
C36_WakeIsRetainedAndCoalesced ==
    /\ [][wakePipe' < wakePipe
            => /\ wakePipe' = 0
               /\ last'.op = "poll" /\ last'.val = "false"
               /\ last'.why = "interrupted" /\ last'.wakes = wakePipe]_vars
    /\ [][\A t \in Threads :
            (/\ pc[t] = "poll_src" /\ op[t] = "poll"
             /\ wakePipe > 0 /\ NoInput
             /\ <<pc[t], events, skipped_events, last>>'
                    # <<pc[t], events, skipped_events, last>>)
                => /\ pc'[t] = "idle"
                   /\ \/ last'.val = "err" /\ last'.why = "error"
                      \/ /\ last'.val = "false" /\ last'.why = "interrupted"
                         /\ wakePipe' = 0]_vars
    /\ [][(last' # last /\ last'.why = "interrupted")
            => wakePipe > 0 /\ last'.wakes = wakePipe]_vars

\* Three wakes were pending when a poll without timeout reached the byte
\* source: the one interruption took them all.
C36_Witness ==
    /\ last.op = "poll" /\ last.tm = "none" /\ last.val = "false"
    /\ last.why = "interrupted" /\ last.wakes = MaxWakes
    /\ wakePipe = 0

\* C37: a Waker can be obtained while a call is blocked.  A thread inside
\* EventReader::waker does not wait for the terminal to send input: not for
\* the lock of a thread that is blocked in read or poll(None) on a clone of
\* the reader.
C37_WakerReturnsWhileCallBlocked ==
    \A t \in Threads : op[t] = "waker" => ~Blocked(t)

IsKeyDownRecord(record) == record.EventType = "KEY_EVENT" /\ record.bKeyDown # 0
IsSizeRecord(record) == record.EventType = "WINDOW_BUFFER_SIZE_EVENT"
IsKeyEvent(ev) == ev.type = "Key"
IsResizeEvent(ev) == ev.type = "WindowResized"

\* C38: decode_input_records decodes every record of a batch.  After a call
\* the decoder has appended, in their order, the key event of every key-down
\* record of the batch and the resize event of every window buffer size
\* record, those behind a key-up record included, and no byte of the batch is
\* left in the buffer.
C38_EveryRecordOfABatchIsDecoded ==
    fed # NoFeed =>
        LET downs == SelectSeq(fed.bytes, IsKeyDownRecord)
            sizes == SelectSeq(fed.bytes, IsSizeRecord)
        IN  /\ SelectSeq(Appended, IsKeyEvent)
                  = [i \in 1..Len(downs) |->
                        KeyEventNew(<<"Char", downs[i].AsciiChar>>, NONE)]
            /\ SelectSeq(Appended, IsResizeEvent)
                  = [i \in 1..Len(sizes) |-> WindowResized(sizes[i])]
            /\ buffer = <<>>

\* C39: the decoder does not depend on how its input is cut.  A byte string
\* fed in two calls, a prefix with maybe_more = true and then the rest with
\* the flag m, leaves the decoder with the events and the buffer that the
\* whole string fed in one call with the flag m leaves.
C39_TwoCallsAreOneCall ==
    (sent.cmd = "bytes" /\ sent.fed = 2) =>
        LET r == process_bytes(sent.bytes, fed.more)
        IN  /\ parserEvents = r.pushed
            /\ buffer = IF r.panic THEN sent.bytes ELSE advance(sent.bytes, r.start)
            /\ panicked = r.panic

\* The selective parameter a terminal reads in the sequence ESC [ Ps F: the
\* number written, and 0, the default of EL and ED, when none is written.
ErasePs(bytes) ==
    LET digits == SubSeq(bytes, 3, Len(bytes) - 1)
    IN  IF digits = <<>> THEN 0 ELSE ParseUnsigned(digits, 255)

\* C40: the erase commands stay distinct on the wire.  The sequence written
\* for an EraseInLine or EraseInDisplay value is ESC [ Ps K or ESC [ Ps J
\* whose parameter, as a terminal reads it, is the number of the value: it is
\* written, or left out for the value 0 only.
C40_EraseCommandsStayDistinct ==
    (sent.cmd = "Edit" /\ sent.edit \in {"EraseInLine", "EraseInDisplay"})
        => /\ SubSeq(written, 1, 2) = <<27, 91>>
           /\ written[Len(written)] = EditControl[sent.edit]
           /\ ErasePs(written) = IF sent.edit = "EraseInLine"
                                 THEN EraseInLineCode[sent.value]
                                 ELSE EraseInDisplayCode[sent.value]
====
